---- MODULE Spec2Model ----
\* Frame-execution engine of the DirectX 12 renderer: command queue and fence,
\* frame-slot ring, descriptor heap, and the Application bootstrap that drives
\* them.  The CPU thread is one process (pc); the GPU is the other, draining
\* the queue in FIFO order.
EXTENDS Integers, Sequences, FiniteSets, TLC

\* ---------------------------------------------------------------- bounds
MaxFrames == 4          \* render() calls made by the run loop
MaxHeapCap == 3         \* largest capacity a unit-level heap is created with
MaxAllocCalls == MaxHeapCap + 2
MaxAsCalls == 2         \* buildAccelerationStructures calls a caller of Renderer makes
MaxTlasSize == 3        \* largest size a prebuild query reports
MaxRecords == 3         \* most records in one region of the shader binding table
MaxFairFrames == 3      \* render() calls made where waits are followed to their end
MaxSbtBuilds == 2       \* shader binding table builds made on one renderer
SizeBits == 16          \* bits kept of a size_t value

\* ------------------------------------------------------ program constants
kBackBufferCount == 3
numFrames == kBackBufferCount   \* argument Application::init passes to Renderer::init
Slots == 0 .. (kBackBufferCount - 1)

VARIABLES
    pc,                     \* position of the CPU thread
    inDtor,                 \* shutdown() is running from ~Application
    frames,                 \* calls made by the run loop so far
    useRaytracing,          \* argument of the render() call in progress
    m_nextFenceValue,       \* CommandQueue::m_nextFenceValue
    completed,              \* ID3D12Fence::GetCompletedValue()
    gpuQueue,               \* submissions the GPU has not finished, FIFO
    fenceEvent,             \* m_fenceEvent: value it is armed for, signalled flag
    issued,                 \* values taken by signal(), with the call's outcome
    wait,                   \* the waitForFence call in progress / last made
    m_currentBufferIndex,   \* SwapChain::m_currentBufferIndex
    m_currentFrameIndex,    \* Renderer::m_currentFrameIndex
    m_frameFenceValues,     \* Renderer::m_frameFenceValues
    lastSubmit,             \* slot recorded and value signalled by the last frame
    m_rayTracingSupported,
    m_blasResult,           \* m_blasBuffers.result != nullptr
    m_tlasResult,           \* m_tlasBuffers.result != nullptr
    m_meshSrvs,             \* mesh vertex/index SRV handles are set
    m_blasBuf,              \* buffer m_blasBuffers.result holds, 0 for nullptr
    m_tlasWidth,            \* GetDesc().Width of m_tlasBuffers.scratch and .result
    tlasBuild,              \* outcome and build description of the last buildTLAS call
    instanceDesc,           \* bottom-level buffer named by the instance descriptor
    asCall,                 \* buildAccelerationStructures calls and the last one's outcome
    blasLog,                \* bottom-level result buffers built, and those released
                            \* while a submission in flight reads them
    m_sbt,                  \* shader binding table layout
    recorded,               \* what the last render() call recorded and submitted
    initFailed,             \* a step of Application::init has failed
    hazards,                \* buffers the CPU wrote while a frame in flight reads them
    m_srvHeap,              \* the DescriptorHeap under consideration
    allocLog,               \* outcome of every allocateDescriptor call on it
    commands,               \* commands recorded on the command list since its reset
    gpu,                    \* state of each resource after the lists executed so far
    m_currentState,         \* Texture::m_currentState
    faults,                 \* commands executed against a resource in the wrong state
    rayDesc,                \* D3D12_DISPATCH_RAYS_DESC of the last DispatchRays
    perFrame,               \* the per-frame containers of one renderer and the indices used on them
    m_commandList,          \* recording state of the one command list, as calls leave it
    slotViews,              \* the descriptor slots allocated so far and what was done with each
    m_buffer,               \* one Buffer object and the calls made on its resource
    released                \* objects released so far, in order, each with whether
                            \* the GPU could still use it at that moment

vars == <<pc, inDtor, frames, useRaytracing, m_nextFenceValue, completed, gpuQueue,
          fenceEvent, issued, wait, m_currentBufferIndex, m_currentFrameIndex,
          m_frameFenceValues, lastSubmit, m_rayTracingSupported, m_blasResult,
          m_tlasResult, m_meshSrvs, m_blasBuf, m_tlasWidth, tlasBuild,
          instanceDesc, asCall, blasLog, m_sbt, recorded, initFailed, hazards,
          m_srvHeap, allocLog, commands, gpu, m_currentState, faults, rayDesc, m_buffer,
          perFrame, m_commandList, slotViews, released>>

queueVars == <<m_nextFenceValue, gpuQueue, issued>>
gpuVars == <<completed, fenceEvent>>
ringVars == <<m_currentBufferIndex, m_currentFrameIndex, m_frameFenceValues, lastSubmit>>
asVars == <<m_blasResult, m_tlasResult, m_blasBuf, m_tlasWidth, tlasBuild,
           instanceDesc, blasLog>>
dxrVars == <<m_rayTracingSupported, m_meshSrvs, asVars, asCall, m_sbt, recorded,
            initFailed>>
heapVars == <<m_srvHeap, allocLog>>
unitVars == <<rayDesc, m_buffer, perFrame, m_commandList, slotViews>>
recVars == <<commands, gpu, m_currentState, faults, unitVars>>
listVars == <<recVars, released>>

\* --------------------------------------------------------- GPU resources
BackBuffer(i) == <<"backBuffer", i>>
DxrOutput == <<"dxrOutputTexture", 0>>
Tex == <<"texture", 0>>
VertexBuf == <<"vertexBuffer", 0>>
IndexBuf == <<"indexBuffer", 0>>
BlasResult == <<"blasResult", 0>>
TlasResult == <<"tlasResult", 0>>
Resources == {BackBuffer(i) : i \in Slots} \cup {DxrOutput, Tex, VertexBuf, IndexBuf}

\* state: the D3D12 resource state of each resource; blasBuilt / tlasBuilt: an
\* executed build has written the result buffer now held.  Before anything
\* is created only the swap chain's buffers exist.
NoGpu == [state |-> [r \in Resources |-> IF r[1] = "backBuffer" THEN "PRESENT" ELSE "none"],
          blasBuilt |-> FALSE, tlasBuilt |-> FALSE]

\* ------------------------------------------------------------ GPU buffers
PerSlotBufs(i) == {<<"objectCB", i>>, <<"lightCB", i>>}
DxrCBs == {<<"dxrCameraCB", 0>>, <<"dxrObjectCB", 0>>, <<"dxrLightCB", 0>>}
InstanceDescBuf == <<"instanceDesc", 0>>
UploadBufs == {<<"upload", 0>>}

ExecItem(slot, reads) == [kind |-> "exec", slot |-> slot, reads |-> reads, value |-> 0]
SignalItem(v) == [kind |-> "signal", slot |-> 0, reads |-> {}, value |-> v]

\* buffers read by a command list the GPU has not finished
InFlightReads == UNION {gpuQueue[k].reads : k \in 1 .. Len(gpuQueue)}

\* a CPU write of the buffers ws: those a frame in flight still reads
Written(ws) == hazards \cup (ws \cap InFlightReads)

\* ------------------------------------------------------- exception unwinding
\* An exception leaves WinMain's try block: ~Application runs shutdown(); an
\* exception thrown from the destructor terminates the process.
ThrowPc_Swallowed == "run"

ThrowPc == IF inDtor THEN "terminated" ELSE "shutdown"

\* --------------------------------------------------- CommandQueue::signal
\* m_nextFenceValue++ happens before the HRESULT is looked at
SignalAdvance_OnlyOnSuccess(ok) == IF ok THEN 1 ELSE 0

SignalAdvance(ok) == 1

\* effect of signal() on the queue; ok is the HRESULT of ID3D12CommandQueue::Signal
Signal(ok, q) ==
    /\ issued' = Append(issued, [value |-> m_nextFenceValue, ok |-> ok])
    /\ m_nextFenceValue' = m_nextFenceValue + SignalAdvance(ok)
    /\ gpuQueue' = IF ok THEN Append(q, SignalItem(m_nextFenceValue)) ELSE q

\* ---------------------------------------------- CommandQueue::isFenceComplete
IsFenceComplete_OffByOne(fenceValue) == completed + 1 >= fenceValue

IsFenceComplete(fenceValue) == completed >= fenceValue

\* ------------------------------------------------ CommandQueue::waitForFence
\* the call: remember the value and where to continue
CallWaitForFence(v, ret) ==
    [val |-> v, ret |-> ret, armed |-> FALSE, atCall |-> 0, returned |-> FALSE]

NoWait == [val |-> 0, ret |-> "none", armed |-> FALSE, atCall |-> 0, returned |-> FALSE]

WaitPcs == {"wf_check", "wf_arm", "wf_block"}

\* if (!isFenceComplete(fenceValue)) ... else return; atCall keeps the
\* completed value this read saw
WfCheck ==
    /\ pc = "wf_check"
    /\ IF IsFenceComplete(wait.val)
         THEN /\ pc' = wait.ret
              /\ wait' = [wait EXCEPT !.atCall = completed, !.returned = TRUE]
         ELSE /\ pc' = "wf_arm"
              /\ wait' = [wait EXCEPT !.atCall = completed]
    /\ UNCHANGED <<listVars, inDtor, frames, useRaytracing, queueVars, gpuVars, ringVars,
                   dxrVars, hazards, heapVars>>

\* SetEventOnCompletion(fenceValue, m_fenceEvent): the event is signalled at
\* once if the fence has already reached the value
WfArm ==
    /\ pc = "wf_arm"
    /\ \E hrOk \in BOOLEAN :
         IF hrOk
           THEN /\ fenceEvent' = IF completed >= wait.val
                                   THEN [armed |-> 0, set |-> TRUE]
                                   ELSE [armed |-> wait.val, set |-> FALSE]
                /\ wait' = [wait EXCEPT !.armed = TRUE]
                /\ pc' = "wf_block"
                /\ UNCHANGED inDtor
           ELSE /\ pc' = ThrowPc
                /\ inDtor' = TRUE
                /\ UNCHANGED <<fenceEvent, wait>>
    /\ UNCHANGED <<listVars, frames, useRaytracing, queueVars, completed, ringVars,
                   dxrVars, hazards, heapVars>>

\* WaitForSingleObject(m_fenceEvent, INFINITE) on the auto-reset event
WfBlock ==
    /\ pc = "wf_block"
    /\ fenceEvent.set
    /\ fenceEvent' = [armed |-> 0, set |-> FALSE]
    /\ wait' = [wait EXCEPT !.returned = TRUE]
    /\ pc' = wait.ret
    /\ UNCHANGED <<listVars, inDtor, frames, useRaytracing, queueVars, completed, ringVars,
                   dxrVars, hazards, heapVars>>

\* ------------------------------------------------------------- the GPU
\* the GPU finishes the oldest submission; finishing a Signal raises the fence
\* and signals the event armed for a value it has reached
GpuStep ==
    /\ Len(gpuQueue) > 0
    /\ LET head == Head(gpuQueue)
           c == IF head.kind = "signal" THEN head.value ELSE completed
       IN /\ completed' = c
          /\ fenceEvent' = IF fenceEvent.armed # 0 /\ c >= fenceEvent.armed
                             THEN [armed |-> 0, set |-> TRUE]
                             ELSE fenceEvent
    /\ gpuQueue' = Tail(gpuQueue)
    /\ UNCHANGED <<listVars, pc, inDtor, frames, useRaytracing, m_nextFenceValue, issued, wait,
                   ringVars, dxrVars, hazards, heapVars>>

\* ------------------------------------------------------- DescriptorHeap
\* values the device reports for a heap: handle increment and heap start
DescriptorSizes == {8, 32}
HeapStarts == {4096, 8192}

EmptyHeap == [created |-> FALSE, cap |-> 0, idx |-> 0, descSize |-> 0,
              startCPU |-> 0, startGPU |-> 0, shaderVisible |-> FALSE]

\* DescriptorHeap::create: false, and no heap, when numDescriptors <= 0
HeapCreate(numDescriptors, shaderVisible, descSize, start) ==
    IF numDescriptors <= 0
      THEN EmptyHeap
      ELSE [created |-> TRUE, cap |-> numDescriptors, idx |-> 0, descSize |-> descSize,
            startCPU |-> start, startGPU |-> IF shaderVisible THEN start + 1 ELSE 0,
            shaderVisible |-> shaderVisible]

\* negation of m_currentDescriptorIndex >= m_numDescriptorsInHeap
AllocFits_OffByOne(idx, cap) == idx <= cap

AllocFits(idx, cap) == idx < cap

\* m_currentDescriptorIndex++
NextIndex_Stuck(idx) == idx

NextIndex(idx) == idx + 1

\* CD3DX12_CPU_DESCRIPTOR_HANDLE(start, index, descriptorSize)
HandleAt(start, idx, descSize) == start + idx * descSize

\* what one allocateDescriptor call on heap h returns and leaves behind
AllocateDescriptor(h) ==
    IF h.created /\ AllocFits(h.idx, h.cap)
      THEN [ok |-> TRUE,
            cpu |-> HandleAt(h.startCPU, h.idx, h.descSize),
            gpu |-> IF h.shaderVisible THEN HandleAt(h.startGPU, h.idx, h.descSize) ELSE 0,
            before |-> h.idx,
            heap |-> [h EXCEPT !.idx = NextIndex(h.idx)]]
      ELSE [ok |-> FALSE, cpu |-> 0, gpu |-> 0, before |-> h.idx, heap |-> h]

LogEntry(r) == [ok |-> r.ok, cpu |-> r.cpu, gpu |-> r.gpu, before |-> r.before,
                after |-> r.heap.idx, created |-> r.heap.created]

\* n allocations in a row by a caller that returns false at the first failure
RECURSIVE AllocMany(_, _, _)
AllocMany(h, log, n) ==
    IF n = 0
      THEN [heap |-> h, log |-> log, ok |-> TRUE]
      ELSE LET r == AllocateDescriptor(h)
           IN IF r.ok
                THEN AllocMany(r.heap, Append(log, LogEntry(r)), n - 1)
                ELSE [heap |-> r.heap, log |-> Append(log, LogEntry(r)), ok |-> FALSE]

\* ------------------------------------------------------------- AlignUp
\* a & b on the low n bits
RECURSIVE BitAnd(_, _, _)
BitAnd(a, b, n) ==
    IF n = 0
      THEN 0
      ELSE (a % 2) * (b % 2) + 2 * BitAnd(a \div 2, b \div 2, n - 1)

\* ~a
BitNot(a) == (2 ^ SizeBits - 1) - (a % (2 ^ SizeBits))

AlignUp_Down(size, alignment) ==
    BitAnd(size % (2 ^ SizeBits), BitNot(alignment - 1), SizeBits)

\* (size + alignment - 1) & ~(alignment - 1)
AlignUp(size, alignment) ==
    BitAnd((size + alignment - 1) % (2 ^ SizeBits), BitNot(alignment - 1), SizeBits)

\* ------------------------------------------------ shader binding table
D3D12_SHADER_IDENTIFIER_SIZE_IN_BYTES == 32
D3D12_RAYTRACING_SHADER_RECORD_BYTE_ALIGNMENT == 32
D3D12_RAYTRACING_SHADER_TABLE_BYTE_ALIGNMENT == 64

\* nullId: the last build was handed a null identifier; buffer: the buffer
\* m_shaderBindingTable holds (0 for nullptr); writes: the memcpy calls made
\* into it, each copying shaderIdSize bytes of one export's identifier
NoSbt == [built |-> FALSE, shaderIdSize |-> 0, recordAlignment |-> 0,
          tableAlignment |-> 0, numRayGenEntries |-> 0, numMissEntries |-> 0,
          numHitGroupEntries |-> 0, m_sbtEntrySize |-> 0, rayGenTableStart |-> 0,
          missTableStart |-> 0, hitGroupTableStart |-> 0, sbtSize |-> 0,
          nullId |-> FALSE, buffer |-> 0, writes |-> {}]

\* the exports whose identifier the table build asks the state object for
RequiredExports(numRayGenEntries, numMissEntries, numHitGroupEntries) ==
    {<<"RayGen", k>> : k \in 0 .. numRayGenEntries - 1}
      \cup {<<"Miss", k>> : k \in 0 .. numMissEntries - 1}
      \cup {<<"HitGroup", k>> : k \in 0 .. numHitGroupEntries - 1}

\* the layout buildShaderBindingTable computes; no table is built when the
\* entry size or the total size comes out zero
ShaderTableLayout(shaderIdSize, recordAlignment, tableAlignment, numRayGenEntries, numMissEntries, numHitGroupEntries) ==
    LET entry == AlignUp(shaderIdSize, recordAlignment)
        rayGenTableStart == 0
        missTableStart ==
            AlignUp(rayGenTableStart + numRayGenEntries * entry, tableAlignment)
        hitGroupTableStart ==
            AlignUp(missTableStart + numMissEntries * entry, tableAlignment)
        sbtSize ==
            AlignUp(hitGroupTableStart + numHitGroupEntries * entry, tableAlignment)
    IN IF entry = 0 \/ sbtSize = 0
         THEN NoSbt
         ELSE [built |-> TRUE, shaderIdSize |-> shaderIdSize,
               recordAlignment |-> recordAlignment, tableAlignment |-> tableAlignment,
               numRayGenEntries |-> numRayGenEntries, numMissEntries |-> numMissEntries,
               numHitGroupEntries |-> numHitGroupEntries, m_sbtEntrySize |-> entry,
               rayGenTableStart |-> rayGenTableStart, missTableStart |-> missTableStart,
               hitGroupTableStart |-> hitGroupTableStart, sbtSize |-> sbtSize,
               nullId |-> FALSE, buffer |-> 0,
               writes |-> {[at |-> rayGenTableStart + k * entry, id |-> <<"RayGen", k>>] :
                              k \in 0 .. numRayGenEntries - 1}
                          \cup {[at |-> missTableStart + k * entry, id |-> <<"Miss", k>>] :
                                  k \in 0 .. numMissEntries - 1}
                          \cup {[at |-> hitGroupTableStart + k * entry, id |-> <<"HitGroup", k>>] :
                                  k \in 0 .. numHitGroupEntries - 1}]

\* Renderer::BuildShaderBindingTable: one record in each region
BuildShaderBindingTable ==
    ShaderTableLayout(D3D12_SHADER_IDENTIFIER_SIZE_IN_BYTES,
                      D3D12_RAYTRACING_SHADER_RECORD_BYTE_ALIGNMENT,
                      D3D12_RAYTRACING_SHADER_TABLE_BYTE_ALIGNMENT, 1, 1, 1)

\* the identifier check that opens the table build: with an identifier
\* missing the build returns before it touches the table, which stays as it
\* was (prev); otherwise the old buffer is released and the layout is written
\* into the new one (fresh)
IdentifiersFound_Unchecked(missing) == TRUE

IdentifiersFound(missing) == missing = {}

ShaderTableFor(prev, missing, layout, fresh) ==
    IF ~IdentifiersFound(missing)
      THEN prev
      ELSE IF layout.built THEN [layout EXCEPT !.buffer = fresh] ELSE layout

\* a byte of a buffer CreateCommittedResource has just returned
\* (D3D12_HEAP_FLAG_NONE: the resource is created zeroed)
FreshBufferByte_Stale(buffer) == buffer

FreshBufferByte(buffer) == 0

\* byte i of the table buffer: byte i - at of the identifier copied over it,
\* or what the buffer held when it was created
ByteAt(sbt, i) ==
    LET over == {w \in sbt.writes : w.at <= i /\ i < w.at + sbt.shaderIdSize}
    IN IF over # {}
         THEN LET w == CHOOSE x \in over : TRUE IN <<w.id, i - w.at>>
         ELSE <<"fill", FreshBufferByte(sbt.buffer)>>

\* ----------------------------------------- Renderer::createDescriptorHeaps
\* the sizing of the commented-out raster-only version
TotalDescriptors_RasterOnly(k) == k + 1 + 1 + 4

\* numFrameLightCBVs + material + texture + DXR object + DXR camera
\* + 2 buffer SRVs + output UAV + DXR light + DXR material + 4 spare
TotalDescriptors(k) == k + 1 + 1 + 1 + 1 + 2 + 1 + 1 + 1 + 4

\* allocations of createConstantBuffersAndViews: k light CBVs, the material
\* CBV, and the DXR camera, object, light and material CBVs
ConstantBufferViews(k) == k + 1 + 4

\* CreateDXRResources allocates the output UAV slot twice
DxrResourceViews == 2

\* ------------------------------------------------------------- releases
\* the intermediate upload buffers of the mesh and the texture are used by
\* the GPU while a submission that reads them has not finished; everything
\* else while the queue holds anything
Busy(obj) ==
    IF obj = "m_uploadBuffers"
      THEN UploadBufs \cap InFlightReads # {}
      ELSE gpuQueue # <<>>

\* dtor: the release is made by a shutdown() that ~Application called
ReleaseOf(obj) == [obj |-> obj, busy |-> Busy(obj), dtor |-> inDtor]

IsReleased(rel, obj) == \E k \in DOMAIN rel : rel[k].obj = obj

\* m_uploadBuffers.clear() in waitForGpuIdleAndClearUploads: releases what
\* the vector still holds
ClearUploads(rel) ==
    IF IsReleased(rel, "m_uploadBuffers") THEN rel ELSE Append(rel, ReleaseOf("m_uploadBuffers"))

ReleaseOrder_DeviceFirst == <<"m_device", "rendererResources", "m_renderer", "m_modelMesh", "m_texture", "m_camera", "m_swapChain", "m_commandQueue", "m_window">>

\* Renderer::shutdown after its join, then Application::shutdown from
\* m_renderer.reset() on
ReleaseOrder == <<"rendererResources", "m_renderer", "m_modelMesh", "m_texture", "m_camera", "m_swapChain", "m_commandQueue", "m_device", "m_window">>

RECURSIVE ReleaseAll(_, _)
ReleaseAll(rel, objs) ==
    IF objs = <<>>
      THEN rel
      ELSE ReleaseAll(IF IsReleased(rel, Head(objs)) THEN rel ELSE Append(rel, ReleaseOf(Head(objs))), Tail(objs))

\* if (m_commandQueue) in waitForGpuIdleAndClearUploads
CommandQueueHeld(rel) == ~IsReleased(rel, "m_commandQueue")

\* ---------------------------------------------------- Renderer::waitForGpu
NeedsWait_Never(fenceValue) == FALSE

NeedsWait_Always(fenceValue) == TRUE

NeedsWait(fenceValue) == fenceValue > 0

\* waitForGpu() followed by the code at pc value ret
WaitForGpu(ret) ==
    LET fenceValue == m_frameFenceValues[m_currentFrameIndex]
    IN IF NeedsWait(fenceValue)
         THEN /\ wait' = CallWaitForFence(fenceValue, ret)
              /\ pc' = "wf_check"
         ELSE /\ wait' = NoWait
              /\ pc' = ret

\* ------------------------------------------------------ CommandQueue::join
JoinWaitValue_Previous(fenceValue) == fenceValue - 1

JoinWaitValue_Next(fenceValue) == fenceValue + 1

JoinWaitValue_Zero(fenceValue) == 0

JoinWaitValue(fenceValue) == fenceValue

\* join() after the submissions in q, continuing at ret
Join(q, ret) ==
    \E ok \in BOOLEAN :
      /\ Signal(ok, q)
      /\ IF ok
           THEN /\ wait' = CallWaitForFence(JoinWaitValue(m_nextFenceValue), ret)
                /\ pc' = "wf_check"
                /\ UNCHANGED inDtor
           ELSE /\ pc' = ThrowPc
                /\ inDtor' = TRUE
                /\ UNCHANGED wait

\* ------------------------------------------------------- Application::init
\* Renderer::init: heaps, constant buffers and views, DXR resources and the
\* shader binding table; createOk is the outcome of the creation calls that
\* allocate no descriptor.  A false return leaves WinMain, and ~Application
\* runs shutdown().
InitRenderer ==
    /\ pc = "init"
    /\ \E createOk \in BOOLEAN, missing \in SUBSET RequiredExports(1, 1, 1) :
         LET h0 == HeapCreate(TotalDescriptors(numFrames), TRUE, 32, 4096)
             a1 == AllocMany(h0, allocLog, ConstantBufferViews(numFrames))
             a2 == IF a1.ok /\ m_rayTracingSupported
                     THEN AllocMany(a1.heap, a1.log, DxrResourceViews)
                     ELSE a1
             tableBuilt == m_rayTracingSupported /\ a2.ok
             sbt == IF tableBuilt
                      THEN ShaderTableFor(m_sbt, missing, BuildShaderBindingTable, 1)
                      ELSE NoSbt
             ok == a2.ok /\ createOk /\ (m_rayTracingSupported => sbt.built)
         IN /\ m_srvHeap' = a2.heap
            /\ allocLog' = a2.log
            /\ m_sbt' = IF ok \/ (tableBuilt /\ missing # {})
                          THEN [sbt EXCEPT !.nullId = tableBuilt /\ missing # {}]
                          ELSE NoSbt
            /\ initFailed' = ~ok
            /\ IF ok
                 THEN /\ pc' = "load"
                      /\ m_currentFrameIndex' = m_currentBufferIndex
                      /\ UNCHANGED inDtor
                 ELSE /\ pc' = "shutdown"
                      /\ inDtor' = TRUE
                      /\ UNCHANGED m_currentFrameIndex
    /\ UNCHANGED <<listVars, frames, useRaytracing, queueVars, gpuVars, wait, m_currentBufferIndex,
                   m_frameFenceValues, lastSubmit, m_rayTracingSupported, m_meshSrvs,
                   asVars, asCall, recorded, hazards>>

\* Application::loadAssets: mesh and texture load (texture SRV), upload
\* submission, join; a load that throws is caught and makes it return false
LoadAssets ==
    /\ pc = "load"
    /\ \E loadOk \in BOOLEAN :
         LET a == AllocMany(m_srvHeap, allocLog, 1)
         IN /\ m_srvHeap' = a.heap
            /\ allocLog' = a.log
            /\ initFailed' = ~(a.ok /\ loadOk)
            /\ IF a.ok /\ loadOk
                 THEN Join(Append(gpuQueue, ExecItem(0, UploadBufs)), "build_as")
                 ELSE /\ pc' = "shutdown"
                      /\ inDtor' = TRUE
                      /\ UNCHANGED <<queueVars, wait>>
    /\ UNCHANGED <<listVars, frames, useRaytracing, gpuVars, ringVars, m_rayTracingSupported,
                   m_meshSrvs, asVars, asCall, m_sbt, recorded, hazards>>

\* ------------------------------------- Renderer::buildAccelerationStructures
\* n: calls made; of the last call: the size its bottom-level prebuild query
\* reported, how buildBLAS ended, and the value returned
NoAsCall == [n |-> 0, blasSize |-> 0, blas |-> "none", ret |-> FALSE]

\* entry: the early return without raytracing support, then waitForGpu()
BuildAccelerationStructures ==
    /\ pc = "build_as"
    /\ released' = ClearUploads(released)
    /\ asCall' = [NoAsCall EXCEPT !.n = asCall.n + 1]
    /\ IF ~m_rayTracingSupported
         THEN /\ pc' = "run"
              /\ UNCHANGED wait
         ELSE WaitForGpu("bas_record")
    /\ UNCHANGED <<recVars, inDtor, frames, useRaytracing, queueVars, gpuVars, ringVars,
                   m_rayTracingSupported, m_meshSrvs, asVars, m_sbt, recorded,
                   initFailed, hazards, heapVars>>

\* ---------------------------------------------------- Renderer::buildBLAS
\* the bottom-level result buffer with identity b, as a buffer the GPU reads
BlasBuf(b) == <<"blasResult", b>>

\* sizes the device reports for the bottom-level prebuild query
BlasPrebuildSizes == {0, 1}

BlasPrebuildFails_Never(size) == FALSE

\* blasPrebuildInfo.ResultDataMaxSizeInBytes == 0
BlasPrebuildFails(size) == size = 0

\* one buildBLAS call: b is the result buffer held, fresh the buffer a
\* successful CreateCommittedResource yields.  reset: scratch and result were
\* Reset(); recorded: a build was recorded on the command list.
BuildBLAS(b, prebuildSize, createOk, fresh) ==
    IF BlasPrebuildFails(prebuildSize)
      THEN [ok |-> FALSE, outcome |-> "prebuildZero", buf |-> b,
            reset |-> FALSE, recorded |-> FALSE]
      ELSE IF ~createOk
        THEN [ok |-> FALSE, outcome |-> "createFailed", buf |-> 0,
              reset |-> TRUE, recorded |-> FALSE]
        ELSE [ok |-> TRUE, outcome |-> "built", buf |-> fresh,
              reset |-> TRUE, recorded |-> TRUE]

\* ------------------------------------------------------------- matrices
\* a glm::mat4 is four columns of four components, m[column][row]
Translate(x, y, z) == <<<<1, 0, 0, 0>>, <<0, 1, 0, 0>>, <<0, 0, 1, 0>>, <<x, y, z, 1>>>>

\* glm::transpose
Transpose(m) == [c \in 1 .. 4 |-> [r \in 1 .. 4 |-> m[r][c]]]

\* the world matrix updateConstantBuffers uses for the frame
WorldMatrix == Translate(0, -1, 0)

\* memcpy of sizeof(Transform), 12 floats, from the start of a mat4: its
\* first three columns
Transform3x4(m) == <<m[1], m[2], m[3]>>

\* ---------------------------------------------------- Renderer::buildTLAS
NoInstanceDesc == [transform |-> <<>>, mask |-> 0, blas |-> 0]

\* tlasInstanceDesc as buildTLAS fills it in and copies it into the
\* instance-descriptor buffer
TlasInstanceDesc(blas) ==
    [transform |-> Transform3x4(Transpose(Translate(0, -1, 0))),
     mask |-> 1,
     blas |-> blas]

NoTlasBuild == [outcome |-> "none", prevWidth |-> 0, prebuild |-> 0,
                performUpdateFlag |-> FALSE, source |-> "none", dest |-> "none",
                instance |-> NoInstanceDesc]

NoTlasBuffers == [scratch |-> 0, result |-> 0]

\* what the prebuild query reports for the one-instance top level on the
\* device in use: nothing, or one fixed size
TlasPrebuildOnDevice == {[scratch |-> 0, result |-> 0], [scratch |-> 1, result |-> 1]}

\* in render(): the same instance count gets the sizes the buffers held were
\* created with
TlasPrebuildAgain(w) == [scratch |-> w.scratch, result |-> w.result]

\* what a prebuild query may report to buildTLAS taken on its own
TlasPrebuildAny == [scratch : 1 .. MaxTlasSize, result : 0 .. MaxTlasSize]

\* buffers the GPU reads for a top-level build
TlasBuildReads == {InstanceDescBuf}

\* a buildTLAS call that ends without a build; w is what it leaves of the
\* scratch and result buffers, wrote whether the instance descriptor was written
TlasFailed(outcome, w, wrote, prevWidth, prebuild) ==
    [ok |-> FALSE, called |-> TRUE, width |-> w, wrote |-> wrote,
     build |-> [NoTlasBuild EXCEPT !.outcome = outcome, !.prevWidth = prevWidth,
                                   !.prebuild = prebuild]]

TlasNotCalled(w) ==
    [ok |-> FALSE, called |-> FALSE, width |-> w, wrote |-> FALSE, build |-> NoTlasBuild]

NeedsNewResult_Always(performUpdate, width, required) == TRUE

\* the result buffer is released and created anew when there is none to
\* update or the one held is smaller than the query requires
NeedsNewResult(performUpdate, width, required) ==
    ~performUpdate \/ width = 0 \/ width < required

\* one buildTLAS call: w the widths of the scratch and result buffers held
\* (0 for nullptr), blas the bottom-level result buffer, prebuild the sizes
\* the query reports, scratchOk / resultOk the outcome of a buffer creation
BuildTLAS(w, blas, prebuild, scratchOk, resultOk) ==
    LET performUpdate == w.result # 0
        needScratch == w.scratch = 0 \/ w.scratch < prebuild.scratch
        scratch == IF needScratch THEN prebuild.scratch ELSE w.scratch
        newResult == NeedsNewResult(performUpdate, w.result, prebuild.result)
    IN IF blas = 0
         THEN TlasFailed("noBlas", w, FALSE, w.result, prebuild.result)
       ELSE IF prebuild.result = 0
         THEN TlasFailed("prebuildZero", w, TRUE, w.result, prebuild.result)
       ELSE IF needScratch /\ ~scratchOk
         THEN TlasFailed("createFailed", [w EXCEPT !.scratch = 0], TRUE,
                         w.result, prebuild.result)
       ELSE IF newResult /\ ~resultOk
         THEN TlasFailed("createFailed", [scratch |-> scratch, result |-> 0], TRUE,
                         w.result, prebuild.result)
       ELSE [ok |-> TRUE, called |-> TRUE, wrote |-> TRUE,
             width |-> [scratch |-> scratch,
                        result |-> IF newResult THEN prebuild.result ELSE w.result],
             build |-> [outcome |-> "built",
                        prevWidth |-> w.result,
                        prebuild |-> prebuild.result,
                        \* tlasInputs.Flags keeps the flag set before the query
                        performUpdateFlag |-> performUpdate,
                        source |-> IF newResult THEN "none" ELSE "previous",
                        dest |-> IF newResult THEN "new" ELSE "previous",
                        instance |-> TlasInstanceDesc(blas)]]

\* the effect of the buildTLAS call t on the renderer, blas being the
\* bottom-level buffer it was given
TlasEffect(t, blas) ==
    /\ m_tlasWidth' = t.width
    /\ m_tlasResult' = (t.width.result # 0)
    /\ tlasBuild' = IF t.called THEN t.build ELSE tlasBuild
    /\ instanceDesc' = IF t.wrote THEN blas ELSE instanceDesc
    /\ hazards' = IF t.wrote THEN Written({InstanceDescBuf}) ELSE hazards

\* reset, buildBLAS, buildTLAS, Close, execute, join
BuildRecord ==
    /\ pc = "bas_record"
    /\ \E blasSize \in BlasPrebuildSizes, prebuild \in TlasPrebuildOnDevice,
          blasCreateOk, scratchOk, resultOk, closeOk \in BOOLEAN :
         LET b == BuildBLAS(m_blasBuf, blasSize, blasCreateOk, asCall.n)
             t == IF b.ok
                    THEN BuildTLAS(m_tlasWidth, b.buf, prebuild, scratchOk, resultOk)
                    ELSE TlasNotCalled(m_tlasWidth)
             success == b.ok /\ t.ok /\ closeOk
         IN /\ m_blasBuf' = b.buf
            /\ m_blasResult' = (b.buf # 0)
            /\ blasLog' =
                 [built |-> IF b.ok THEN blasLog.built \cup {b.buf} ELSE blasLog.built,
                  released |-> IF b.reset /\ BlasBuf(m_blasBuf) \in InFlightReads
                                 THEN blasLog.released \cup {m_blasBuf}
                                 ELSE blasLog.released]
            /\ TlasEffect(t, b.buf)
            /\ asCall' = [asCall EXCEPT !.blasSize = blasSize, !.blas = b.outcome,
                                        !.ret = success]
            /\ initFailed' = (initFailed \/ (asCall.n = 1 /\ ~success))
            /\ IF success
                 THEN Join(Append(gpuQueue,
                                  ExecItem(m_currentFrameIndex,
                                           TlasBuildReads \cup {BlasBuf(b.buf)})),
                           "bas_srvs")
                 ELSE /\ pc' = "run"
                      /\ UNCHANGED <<inDtor, queueVars, wait>>
    /\ UNCHANGED <<listVars, frames, useRaytracing, gpuVars, ringVars, m_rayTracingSupported,
                   m_meshSrvs, m_sbt, recorded, heapVars>>

\* createMeshBufferSRVs after the join; its result is what the call returns
BuildMeshSrvs ==
    /\ pc = "bas_srvs"
    /\ LET a == AllocMany(m_srvHeap, allocLog, 2)
       IN /\ m_srvHeap' = a.heap
          /\ allocLog' = a.log
          /\ m_meshSrvs' = (m_meshSrvs \/ a.ok)
          /\ asCall' = [asCall EXCEPT !.ret = a.ok]
          /\ initFailed' = (initFailed \/ (asCall.n = 1 /\ ~a.ok))
    /\ pc' = "run"
    /\ UNCHANGED <<listVars, inDtor, frames, useRaytracing, queueVars, gpuVars, wait, ringVars,
                   m_rayTracingSupported, asVars, m_sbt, recorded, hazards>>

\* nothing recorded by render() yet
\* steps: the calls render() has made so far, in the order it made them
NoRecord == [slot |-> 0, branch |-> "none", ready |-> FALSE, dispatch |-> FALSE,
             clear |-> "none", closed |-> FALSE, presented |-> FALSE,
             signalled |-> FALSE, steps |-> <<>>]

\* the observations of the call that has returned are dropped when its
\* caller moves on
ForgetLastCall ==
    /\ recorded' = NoRecord
    /\ tlasBuild' = NoTlasBuild
    /\ asCall' = [NoAsCall EXCEPT !.n = asCall.n]

\* --------------------------------------------------------- Renderer::render
\* the run loop calls render(); it starts with waitForGpu()
RenderBegin ==
    /\ pc = "run"
    /\ frames < MaxFrames
    /\ frames' = frames + 1
    /\ \E ur \in BOOLEAN : useRaytracing' = ur
    /\ WaitForGpu("r_update")
    /\ recorded' = [NoRecord EXCEPT !.steps = <<"waitForGpu">>]
    /\ tlasBuild' = NoTlasBuild
    /\ asCall' = [NoAsCall EXCEPT !.n = asCall.n]
    /\ UNCHANGED <<listVars, inDtor, queueVars, gpuVars, ringVars, m_rayTracingSupported,
                   m_meshSrvs, m_blasResult, m_tlasResult, m_blasBuf, m_tlasWidth,
                   instanceDesc, blasLog, m_sbt, initFailed, hazards, heapVars>>

\* buffers updateConstantBuffers writes through their mapped pointers
UpdateWrites ==
    PerSlotBufs(m_currentFrameIndex)
      \cup (IF m_rayTracingSupported THEN DxrCBs ELSE {})
      \cup (IF m_rayTracingSupported /\ m_blasResult THEN {InstanceDescBuf} ELSE {})

\* the instance descriptor is rewritten with the bottom-level result's address
UpdateConstantBuffers ==
    /\ pc = "r_update"
    /\ hazards' = Written(UpdateWrites)
    /\ instanceDesc' = IF m_rayTracingSupported /\ m_blasResult
                         THEN m_blasBuf
                         ELSE instanceDesc
    /\ recorded' = [recorded EXCEPT !.steps = Append(@, "updateConstantBuffers")]
    /\ pc' = "r_record"
    /\ UNCHANGED <<listVars, inDtor, frames, useRaytracing, queueVars, gpuVars, wait, ringVars,
                   m_rayTracingSupported, m_meshSrvs, m_blasResult, m_tlasResult,
                   m_blasBuf, m_tlasWidth, tlasBuild, blasLog, asCall, m_sbt,
                   initFailed, heapVars>>

\* the checks of renderRaytraced: state object, shader binding table, output
\* image and its view, camera and object views (all set by a successful init
\* with raytracing support), the top-level result, the texture view (set once
\* assets are loaded) and the two mesh buffer views
ResourcesReady == m_sbt.built /\ m_tlasResult /\ m_meshSrvs

\* commandList after the QueryInterface in render(): the query is made only
\* with raytracing support and the toggle on; otherwise it stays nullptr
HasCommandList5(queryOk) == m_rayTracingSupported /\ useRaytracing /\ queryOk

\* useRaytracing as `if (useRaytracing)` reads it: cleared only by a failed
\* query, which is made only with raytracing support
RaytraceBranch(queryOk) ==
    IF m_rayTracingSupported /\ useRaytracing THEN queryOk ELSE useRaytracing

\* buffers the recorded command list makes the GPU read
FrameReads(raytrace, dispatched) ==
    IF raytrace
      THEN IF dispatched
             THEN DxrCBs \cup TlasBuildReads \cup {BlasBuf(m_blasBuf)}
             ELSE {}
      ELSE PerSlotBufs(m_currentFrameIndex)

\* moveToNextFrame: the index the renderer continues with
NextFrameIndex_RoundRobin(backBufferIndex, current) == (current + 1) % kBackBufferCount

NextFrameIndex(backBufferIndex, current) == backBufferIndex

\* the calls of render() from the allocator reset to the end of the branch
RecordSteps(raytrace) ==
    <<"resetAllocator", "resetCommandList",
      IF raytrace THEN "renderRaytraced" ELSE "renderRaster">>

\* moveToNextFrame: signal(), then the slot's value is stored and the slot
\* index replaced; a failed signal throws
MoveToNextFrameSteps(signalOk) ==
    IF signalOk THEN <<"signal", "advance">> ELSE <<"signal">>

SubmitSteps_PresentFirst == <<"present", "executeCommandLists">>

\* the else branch of the Close check, up to moveToNextFrame
SubmitSteps == <<"executeCommandLists", "present">>

Submits_Always(closeOk) == TRUE

\* if (FAILED(hr)) { } else { execute, present, moveToNextFrame }
Submits(closeOk) == closeOk

\* reset allocator and list, record one branch, Close, execute, present,
\* moveToNextFrame.  nullCallCrashes: what commandList->ClearRenderTargetView
\* does when commandList is nullptr (the process dies, or the call is lost).
\* Each outcome is drawn only where the code reaches the call it belongs to.
RecordAndSubmit ==
    /\ pc = "r_record"
    /\ \E queryOk \in (IF m_rayTracingSupported /\ useRaytracing THEN BOOLEAN ELSE {TRUE}) :
         LET raytrace == RaytraceBranch(queryOk)
             hasList == HasCommandList5(queryOk)
             ready == raytrace /\ ResourcesReady
             nullCall == raytrace /\ ~ready /\ ~hasList
             \* renderRaytraced calls buildTLAS once its checks have passed
             t == IF ready
                    THEN BuildTLAS(m_tlasWidth, m_blasBuf, TlasPrebuildAgain(m_tlasWidth),
                                   TRUE, TRUE)
                    ELSE TlasNotCalled(m_tlasWidth)
             dispatched == ready /\ t.ok
             rec == [slot |-> m_currentFrameIndex,
                     branch |-> IF raytrace THEN "raytrace" ELSE "raster",
                     ready |-> ready,
                     dispatch |-> dispatched,
                     clear |-> IF ~raytrace THEN "scene"
                               ELSE IF ~ready /\ hasList THEN "diag"
                               ELSE "none",
                     closed |-> FALSE, presented |-> FALSE, signalled |-> FALSE,
                     steps |-> recorded.steps \o RecordSteps(raytrace)]
             closing == Append(rec.steps, "Close")
             q == Append(gpuQueue,
                         ExecItem(m_currentFrameIndex, FrameReads(raytrace, dispatched)))
         IN /\ TlasEffect(t, m_blasBuf)
            /\ useRaytracing' = raytrace
            /\ \E nullCallCrashes \in (IF nullCall THEN BOOLEAN ELSE {FALSE}) :
                 IF nullCallCrashes
                   THEN /\ pc' = "crashed"
                        /\ recorded' = rec
                        /\ UNCHANGED <<inDtor, queueVars, ringVars>>
                   ELSE \E closeOk \in BOOLEAN :
                     IF ~Submits(closeOk)
                       THEN \* a failed Close: nothing is submitted
                            /\ pc' = "run"
                            /\ recorded' = [rec EXCEPT !.closed = closeOk,
                                                       !.steps = closing]
                            /\ UNCHANGED <<inDtor, queueVars, ringVars>>
                       ELSE \E presentOk \in BOOLEAN :
                         IF ~presentOk
                           THEN \* SwapChain::present throws
                                /\ gpuQueue' = q
                                /\ pc' = ThrowPc
                                /\ inDtor' = TRUE
                                /\ recorded' = [rec EXCEPT !.closed = closeOk,
                                                           !.steps = closing \o SubmitSteps]
                                /\ UNCHANGED <<m_nextFenceValue, issued, ringVars>>
                           ELSE \E signalOk \in BOOLEAN, backBufferIndex \in Slots :
                                /\ m_currentBufferIndex' = backBufferIndex
                                /\ Signal(signalOk, q)
                                /\ recorded' = [rec EXCEPT !.closed = closeOk,
                                                           !.presented = TRUE,
                                                           !.signalled = signalOk,
                                                           !.steps =
                                                             closing \o SubmitSteps
                                                               \o MoveToNextFrameSteps(signalOk)]
                                /\ IF signalOk
                                     THEN /\ m_frameFenceValues' =
                                               [m_frameFenceValues EXCEPT
                                                  ![m_currentFrameIndex] = m_nextFenceValue]
                                          /\ lastSubmit' = [slot |-> m_currentFrameIndex,
                                                            fence |-> m_nextFenceValue]
                                          /\ m_currentFrameIndex' =
                                               NextFrameIndex(backBufferIndex,
                                                              m_currentFrameIndex)
                                          /\ pc' = "run"
                                          /\ UNCHANGED inDtor
                                     ELSE /\ pc' = ThrowPc
                                          /\ inDtor' = TRUE
                                          /\ UNCHANGED <<m_frameFenceValues, lastSubmit,
                                                         m_currentFrameIndex>>
    /\ UNCHANGED <<listVars, frames, gpuVars, wait, m_rayTracingSupported, m_meshSrvs,
                   m_blasResult, m_blasBuf, blasLog, asCall, m_sbt, initFailed,
                   heapVars>>

\* ---------------------------------------------------- Application::shutdown
\* WM_QUIT ends the run loop; WinMain calls shutdown()
Quit ==
    /\ pc = "run"
    /\ pc' = "shutdown"
    /\ ForgetLastCall
    /\ UNCHANGED <<listVars, inDtor, frames, useRaytracing, queueVars, gpuVars, wait, ringVars,
                   m_rayTracingSupported, m_meshSrvs, m_blasResult, m_tlasResult,
                   m_blasBuf, m_tlasWidth, instanceDesc, blasLog, m_sbt, initFailed,
                   hazards, heapVars>>

\* Application::shutdown up to the wait in waitForGpuIdleAndClearUploads:
\* the join, made only while the queue is held
Shutdown ==
    /\ pc = "shutdown"
    /\ IF CommandQueueHeld(released)
         THEN Join(gpuQueue, "sd_renderer")
         ELSE /\ pc' = "sd_renderer"
              /\ UNCHANGED <<queueVars, wait, inDtor>>
    /\ UNCHANGED <<listVars, frames, useRaytracing, gpuVars, ringVars, dxrVars, hazards, heapVars>>

\* m_uploadBuffers.clear(), then Renderer::shutdown up to the wait of its
\* join; a renderer already reset is not called
RendererShutdown ==
    /\ pc = "sd_renderer"
    /\ released' = ClearUploads(released)
    /\ IF ~IsReleased(released, "m_renderer")
         THEN Join(gpuQueue, "sd_release")
         ELSE /\ pc' = "sd_release"
              /\ UNCHANGED <<queueVars, wait, inDtor>>
    /\ UNCHANGED <<recVars, frames, useRaytracing, gpuVars, ringVars, dxrVars, hazards, heapVars>>

\* the releases of Renderer::shutdown and the resets of Application::shutdown;
\* resetting what is already reset releases nothing
Release ==
    /\ pc = "sd_release"
    /\ released' = ReleaseAll(released, ReleaseOrder)
    /\ pc' = "done"
    /\ UNCHANGED <<recVars, inDtor, frames, useRaytracing, queueVars, gpuVars, wait, ringVars,
                   dxrVars, hazards, heapVars>>

\* WinMain returns after the explicit app.shutdown(): ~Application calls
\* shutdown() once more
SecondShutdown ==
    /\ pc = "done"
    /\ ~inDtor
    /\ inDtor' = TRUE
    /\ pc' = "shutdown"
    /\ UNCHANGED <<listVars, frames, useRaytracing, queueVars, gpuVars, wait, ringVars,
                   dxrVars, hazards, heapVars>>

\* no ray dispatch made yet
NoRegion == [start |-> 0, size |-> 0, stride |-> 0]
NoRayDesc == [dispatched |-> FALSE, sbtBase |-> 0, table |-> NoSbt, rayGen |-> NoRegion,
              miss |-> NoRegion, hitGroup |-> NoRegion]

\* the parts looked at on their own, before anything was done with them
\* Buffer::Buffer(): default heap type, no resource, not mapped; calls: the
\* Map and Unmap calls made on the resource, a Map with its outcome; last: the
\* last map() / unmap() call, what it returned and what it logged
NoBufferCall == [op |-> "none", ret |-> 0, log |-> {}]
NoBuffer == [m_heapType |-> "DEFAULT", m_resource |-> FALSE, m_mappedData |-> 0,
             calls |-> <<>>, n |-> 0, last |-> NoBufferCall]

\* a renderer before init: no per-frame container has a size yet
NoRaster == [bound |-> FALSE, slot |-> 0, light |-> 0, material |-> 0]
NoPerFrame == [m_numFramesInFlight |-> 0, accesses |-> {}, raster |-> NoRaster,
               renders |-> 0, outcome |-> "none"]

\* CommandListManager::create leaves the list closed; exit is the return
\* path the last render() or buildAccelerationStructures() call took
ClosedList == [recording |-> FALSE, allocator |-> 0, calls |-> 0, fn |-> "none",
               exit |-> "none", wasReset |-> FALSE]

UnitVarsInit ==
    /\ rayDesc = NoRayDesc
    /\ m_buffer = NoBuffer
    /\ perFrame = NoPerFrame
    /\ m_commandList = ClosedList
    /\ slotViews = <<>>
    /\ released = <<>>

\* ------------------------------------------------------------ specification
\* state after initDirectX: queue, fence and swap chain exist, nothing submitted
Init ==
    /\ pc = "init"
    /\ inDtor = FALSE
    /\ frames = 0
    /\ useRaytracing = FALSE
    /\ m_nextFenceValue = 1
    /\ completed = 0
    /\ gpuQueue = <<>>
    /\ fenceEvent = [armed |-> 0, set |-> FALSE]
    /\ issued = <<>>
    /\ wait = NoWait
    /\ m_currentBufferIndex \in Slots
    /\ m_currentFrameIndex = 0
    /\ m_frameFenceValues = [i \in Slots |-> 0]
    /\ lastSubmit = [slot |-> 0, fence |-> 0]
    /\ m_rayTracingSupported \in BOOLEAN
    /\ m_blasResult = FALSE
    /\ m_tlasResult = FALSE
    /\ m_meshSrvs = FALSE
    /\ m_blasBuf = 0
    /\ m_tlasWidth = NoTlasBuffers
    /\ tlasBuild = NoTlasBuild
    /\ instanceDesc = 0
    /\ asCall = NoAsCall
    /\ blasLog = [built |-> {}, released |-> {}]
    /\ m_sbt = NoSbt
    /\ recorded = NoRecord
    /\ initFailed = FALSE
    /\ hazards = {}
    /\ m_srvHeap = EmptyHeap
    /\ allocLog = <<>>
    /\ commands = <<>>
    /\ gpu = NoGpu
    /\ m_currentState = "COMMON"
    /\ faults = {}
    /\ UnitVarsInit

Next ==
    \/ InitRenderer
    \/ LoadAssets
    \/ BuildAccelerationStructures
    \/ BuildRecord
    \/ BuildMeshSrvs
    \/ RenderBegin
    \/ UpdateConstantBuffers
    \/ RecordAndSubmit
    \/ Quit
    \/ Shutdown
    \/ RendererShutdown
    \/ Release
    \/ SecondShutdown
    \/ WfCheck
    \/ WfArm
    \/ WfBlock
    \/ GpuStep

Spec == Init /\ [][Next]_vars

\* the same program with a GPU that finishes what the queue holds and a CPU
\* thread that is scheduled while it is inside waitForFence
Fairness ==
    /\ WF_vars(GpuStep)
    /\ WF_vars(WfCheck)
    /\ WF_vars(WfArm)
    /\ WF_vars(WfBlock)

\* the run loop bounded more tightly
FairNext ==
    \/ InitRenderer
    \/ LoadAssets
    \/ BuildAccelerationStructures
    \/ BuildRecord
    \/ BuildMeshSrvs
    \/ (frames < MaxFairFrames /\ RenderBegin)
    \/ UpdateConstantBuffers
    \/ RecordAndSubmit
    \/ Quit
    \/ Shutdown
    \/ RendererShutdown
    \/ Release
    \/ SecondShutdown
    \/ WfCheck
    \/ WfArm
    \/ WfBlock
    \/ GpuStep

FairSpec == Init /\ [][FairNext]_vars /\ Fairness

\* ------------------------------------------- DescriptorHeap on its own
\* one DescriptorHeap object driven by arbitrary create / allocateDescriptor
\* calls, as any owner of the class may make them
\* a class taken on its own: nothing initialized, the CPU thread at its caller p
UnitInit(p) ==
    /\ pc = p
    /\ inDtor = FALSE
    /\ frames = 0
    /\ useRaytracing = FALSE
    /\ m_nextFenceValue = 1
    /\ completed = 0
    /\ gpuQueue = <<>>
    /\ fenceEvent = [armed |-> 0, set |-> FALSE]
    /\ issued = <<>>
    /\ wait = NoWait
    /\ m_currentBufferIndex = 0
    /\ m_currentFrameIndex = 0
    /\ m_frameFenceValues = [i \in Slots |-> 0]
    /\ lastSubmit = [slot |-> 0, fence |-> 0]
    /\ m_rayTracingSupported = FALSE
    /\ m_blasResult = FALSE
    /\ m_tlasResult = FALSE
    /\ m_meshSrvs = FALSE
    /\ m_blasBuf = 0
    /\ m_tlasWidth = NoTlasBuffers
    /\ tlasBuild = NoTlasBuild
    /\ instanceDesc = 0
    /\ asCall = NoAsCall
    /\ blasLog = [built |-> {}, released |-> {}]
    /\ m_sbt = NoSbt
    /\ recorded = NoRecord
    /\ initFailed = FALSE
    /\ hazards = {}
    /\ m_srvHeap = EmptyHeap
    /\ allocLog = <<>>
    /\ commands = <<>>
    /\ gpu = NoGpu
    /\ m_currentState = "COMMON"
    /\ faults = {}
    /\ UnitVarsInit

HeapInit == UnitInit("heap")

HeapCreateCall ==
    /\ pc = "heap"
    /\ ~m_srvHeap.created
    /\ \E n \in 0 .. MaxHeapCap, sv \in BOOLEAN, ds \in DescriptorSizes, st \in HeapStarts :
         m_srvHeap' = HeapCreate(n, sv, ds, st)
    /\ UNCHANGED <<listVars, pc, inDtor, frames, useRaytracing, queueVars, gpuVars, wait, ringVars,
                   dxrVars, hazards, allocLog>>

HeapAllocateCall ==
    /\ pc = "heap"
    /\ Len(allocLog) < MaxAllocCalls
    /\ LET a == AllocMany(m_srvHeap, allocLog, 1)
       IN /\ m_srvHeap' = a.heap
          /\ allocLog' = a.log
    /\ UNCHANGED <<listVars, pc, inDtor, frames, useRaytracing, queueVars, gpuVars, wait, ringVars,
                   dxrVars, hazards>>

HeapNext == HeapCreateCall \/ HeapAllocateCall

HeapSpec == HeapInit /\ [][HeapNext]_vars

\* ------------------------------------- Renderer called by any caller
\* buildAccelerationStructures is public: a caller's loop may call it again
\* in place of a render() call
RebuildCall ==
    /\ pc = "run"
    /\ frames < MaxFrames
    /\ asCall.n < MaxAsCalls
    /\ frames' = frames + 1
    /\ pc' = "build_as"
    /\ ForgetLastCall
    /\ UNCHANGED <<listVars, inDtor, useRaytracing, queueVars, gpuVars, wait, ringVars,
                   m_rayTracingSupported, m_meshSrvs, m_blasResult, m_tlasResult,
                   m_blasBuf, m_tlasWidth, instanceDesc, blasLog, m_sbt, initFailed,
                   hazards, heapVars>>

RendererNext == Next \/ RebuildCall

RendererSpec == Init /\ [][RendererNext]_vars

\* --------------------------------------------------- buildTLAS on its own
\* buildTLAS called any number of times, the device free in what its
\* prebuild query reports and in whether a buffer creation succeeds
TlasInit == UnitInit("tlas")

\* a bottom-level build has succeeded and left a new result buffer
TlasGivenBlas ==
    /\ pc = "tlas"
    /\ m_blasBuf < MaxAsCalls
    /\ m_blasBuf' = m_blasBuf + 1
    /\ m_blasResult' = TRUE
    /\ blasLog' = [blasLog EXCEPT !.built = @ \cup {m_blasBuf + 1}]
    /\ UNCHANGED <<listVars, pc, inDtor, frames, useRaytracing, queueVars, gpuVars, wait, ringVars,
                   m_rayTracingSupported, m_meshSrvs, m_tlasResult, m_tlasWidth,
                   tlasBuild, instanceDesc, asCall, m_sbt, recorded,
                   initFailed, hazards, heapVars>>

TlasBuildCall ==
    /\ pc = "tlas"
    /\ \E prebuild \in TlasPrebuildAny, scratchOk, resultOk \in BOOLEAN :
         TlasEffect(BuildTLAS(m_tlasWidth, m_blasBuf, prebuild, scratchOk, resultOk),
                    m_blasBuf)
    /\ UNCHANGED <<listVars, pc, inDtor, frames, useRaytracing, queueVars, gpuVars, wait, ringVars,
                   m_rayTracingSupported, m_meshSrvs, m_blasResult, m_blasBuf, blasLog,
                   asCall, m_sbt, recorded, initFailed, heapVars>>

TlasNext == TlasGivenBlas \/ TlasBuildCall

TlasSpec == TlasInit /\ [][TlasNext]_vars

\* ------------------------------------ the shader binding table on its own
ShaderIdSizes == {16, 32, 48}
RecordAlignments == {32, 64}
TableAlignments == {64, 128}

SbtInit == UnitInit("sbt")

\* buildShaderBindingTable for any identifier size, alignments and record
\* counts, the state object free in which identifiers it hands out
SbtBuildCall ==
    /\ pc = "sbt"
    /\ frames < MaxSbtBuilds
    /\ frames' = frames + 1
    /\ \E id \in ShaderIdSizes, ra \in RecordAlignments, ta \in TableAlignments,
          nr, nm, nh \in 1 .. MaxRecords :
         \E missing \in {{}} \cup {{e} : e \in RequiredExports(nr, nm, nh)} :
            m_sbt' = [ShaderTableFor(m_sbt, missing,
                                     ShaderTableLayout(id, ra, ta, nr, nm, nh),
                                     m_sbt.buffer + 1)
                        EXCEPT !.nullId = missing # {}]
    /\ UNCHANGED <<listVars, pc, inDtor, useRaytracing, queueVars, gpuVars, wait, ringVars,
                   m_rayTracingSupported, m_meshSrvs, asVars, asCall, recorded,
                   initFailed, hazards, heapVars>>

SbtNext == SbtBuildCall

SbtSpec == SbtInit /\ [][SbtNext]_vars

\* ------------------------------------------------------ recorded commands
Cmd(op, res, before, after) == [op |-> op, res |-> res, before |-> before, after |-> after]

\* CD3DX12_RESOURCE_BARRIER::Transition / ::UAV handed to ResourceBarrier
Transition(res, before, after) == Cmd("Transition", res, before, after)
UavBarrier(res) == Cmd("UAV", res, "", "")

UavBarrierAfterBuild_None(res) == <<>>

\* the barrier recorded right after BuildRaytracingAccelerationStructure
UavBarrierAfterBuild(res) == <<UavBarrier(res)>>

\* state the output image is created in
DxrOutputCreatedIn_UnorderedAccess == "UNORDERED_ACCESS"

DxrOutputCreatedIn == "COPY_SOURCE"

\* the resources once Renderer::init and loadAssets have succeeded: the mesh
\* buffers in the states their upload leaves them in, the texture in the
\* state its load transitions it to
GpuAfterLoad(supported) ==
    [NoGpu EXCEPT !.state =
       [r \in Resources |->
          IF r[1] = "backBuffer" THEN "PRESENT"
          ELSE IF r = DxrOutput THEN (IF supported THEN DxrOutputCreatedIn ELSE "none")
          ELSE IF r = Tex THEN "PIXEL_SHADER_RESOURCE"
          ELSE IF r = VertexBuf THEN "VERTEX_AND_CONSTANT_BUFFER"
          ELSE "INDEX_BUFFER"]]

\* Texture::TransitionToState: a barrier from the tracked state, recorded
\* only when the tracked state differs from the target
TransitionToState(current, target) ==
    IF current # target
      THEN [cmds |-> <<Transition(Tex, current, target)>>, state |-> target]
      ELSE [cmds |-> <<>>, state |-> current]

\* the build command buildTLAS records for the build description b
BuildTlasCmd(b) ==
    Cmd("BuildTLAS", TlasResult, b.source,
        IF b.performUpdateFlag THEN "PERFORM_UPDATE" ELSE "")

\* what buildBLAS (outcome b) and buildTLAS (outcome t) record
AsCommands(b, t) ==
    (IF b.recorded
       THEN <<Cmd("BuildBLAS", BlasResult, "", "")>> \o UavBarrierAfterBuild(BlasResult)
       ELSE <<>>)
      \o (IF t.ok THEN <<BuildTlasCmd(t.build)>> \o UavBarrierAfterBuild(TlasResult) ELSE <<>>)

\* renderRaster: clear, texture to the pixel-shader state, draw
RasterCommands(bb, texState) ==
    LET tr == TransitionToState(texState, "PIXEL_SHADER_RESOURCE")
    IN [cmds |-> <<Cmd("ClearRTV", bb, "scene", "")>> \o tr.cmds
                   \o <<Cmd("Draw", bb, "", "")>>,
        state |-> tr.state]

\* renderRaytraced: the diagnostic clear when a resource is unset (lost when
\* the list pointer is null), nothing more when buildTLAS fails, otherwise
\* the build, the dispatch and the copy into the back buffer
RaytraceCommands(bb, hasList, ready, t, texState) ==
    IF ~ready
      THEN [cmds |-> IF hasList THEN <<Cmd("ClearRTV", bb, "diag", "")>> ELSE <<>>,
            state |-> texState]
    ELSE IF ~t.ok
      THEN [cmds |-> <<>>, state |-> texState]
    ELSE
      LET tr == TransitionToState(texState, "NON_PIXEL_SHADER_RESOURCE")
          again == TransitionToState(tr.state, "NON_PIXEL_SHADER_RESOURCE")
      IN [cmds |-> <<BuildTlasCmd(t.build)>> \o UavBarrierAfterBuild(TlasResult)
                     \o tr.cmds
                     \o <<Transition(DxrOutput, "COPY_SOURCE", "UNORDERED_ACCESS"),
                          Cmd("DispatchRays", DxrOutput, "", "")>>
                     \o again.cmds
                     \o <<Transition(DxrOutput, "UNORDERED_ACCESS", "COPY_SOURCE"),
                          Transition(bb, "RENDER_TARGET", "COPY_DEST"),
                          Cmd("CopyResource", bb, "", ""),
                          Transition(bb, "COPY_DEST", "RENDER_TARGET")>>,
          state |-> again.state]

\* what render() records between the list's reset and its Close
RenderCommands(bb, raytrace, hasList, ready, t, texState) ==
    LET branch == IF raytrace
                    THEN RaytraceCommands(bb, hasList, ready, t, texState)
                    ELSE RasterCommands(bb, texState)
    IN [cmds |-> <<Transition(bb, "PRESENT", "RENDER_TARGET")>> \o branch.cmds
                   \o <<Transition(bb, "RENDER_TARGET", "PRESENT")>>,
        state |-> branch.state]

\* ------------------------------------------------- execution on the GPU
\* the state each resource a command touches has to be in
Needs(c) ==
    IF c.op = "ClearRTV" THEN {<<c.res, "RENDER_TARGET">>}
    ELSE IF c.op = "Draw"
      THEN {<<c.res, "RENDER_TARGET">>, <<Tex, "PIXEL_SHADER_RESOURCE">>,
            <<VertexBuf, "VERTEX_AND_CONSTANT_BUFFER">>, <<IndexBuf, "INDEX_BUFFER">>}
    ELSE IF c.op = "BuildBLAS"
      THEN {<<VertexBuf, "NON_PIXEL_SHADER_RESOURCE">>,
            <<IndexBuf, "NON_PIXEL_SHADER_RESOURCE">>}
    ELSE IF c.op = "DispatchRays"
      THEN {<<c.res, "UNORDERED_ACCESS">>, <<Tex, "NON_PIXEL_SHADER_RESOURCE">>,
            <<VertexBuf, "NON_PIXEL_SHADER_RESOURCE">>,
            <<IndexBuf, "NON_PIXEL_SHADER_RESOURCE">>}
    ELSE IF c.op = "CopyResource"
      THEN {<<c.res, "COPY_DEST">>, <<DxrOutput, "COPY_SOURCE">>}
    ELSE {}

\* acceleration structures a command reads
AsReads(c) ==
    IF c.op = "BuildTLAS" THEN {BlasResult}
    ELSE IF c.op = "DispatchRays" THEN {TlasResult}
    ELSE {}

Fault(kind, c, res, actual, named) ==
    [kind |-> kind, op |-> c.op, res |-> res, actual |-> actual, named |-> named]

\* what goes wrong when the GPU executes c with the resources as in g
StepFaults(g, c) ==
    (IF c.op = "Transition" /\ g.state[c.res] # c.before
       THEN {Fault("before", c, c.res, g.state[c.res], c.before)}
       ELSE {})
      \cup {Fault("access", c, n[1], g.state[n[1]], n[2]) :
              n \in {m \in Needs(c) : g.state[m[1]] # m[2]}}
      \cup (IF c.op = "BuildTLAS" /\ c.before = "previous" /\ ~g.tlasBuilt
              THEN {Fault("source", c, c.res, "unbuilt", "previous")}
              ELSE {})

\* the resources after the GPU has executed c
StepGpu(g, c) ==
    IF c.op = "Transition" THEN [g EXCEPT !.state[c.res] = c.after]
    ELSE IF c.op = "BuildBLAS" THEN [g EXCEPT !.blasBuilt = TRUE]
    ELSE IF c.op = "BuildTLAS" THEN [g EXCEPT !.tlasBuilt = TRUE]
    ELSE g

\* executeCommandLists: the commands run in the order they were recorded
RECURSIVE Execute(_, _, _)
Execute(cmds, g, fs) ==
    IF cmds = <<>>
      THEN [gpu |-> g, faults |-> fs]
      ELSE Execute(Tail(cmds), StepGpu(g, Head(cmds)), fs \cup StepFaults(g, Head(cmds)))

\* Present on a back buffer that is not in the present state
PresentFaults(g, bb) ==
    IF g.state[bb] # "PRESENT"
      THEN {[kind |-> "access", op |-> "Present", res |-> bb, actual |-> g.state[bb],
             named |-> "PRESENT"]}
      ELSE {}

\* a result buffer created anew holds no structure until a build into it runs
AfterRecording(g, b, t) ==
    [g EXCEPT !.blasBuilt = IF b.reset THEN FALSE ELSE @,
              !.tlasBuilt = IF t.width.result = 0 \/ (t.ok /\ t.build.dest = "new")
                              THEN FALSE
                              ELSE @]

BlasNotCalled(buf) ==
    [ok |-> TRUE, outcome |-> "none", buf |-> buf, reset |-> FALSE, recorded |-> FALSE]

\* -------------------------------------------- the command lists on their own
\* an initialized renderer with its assets loaded, called by a caller that
\* builds the acceleration structures and renders frames in any order; each
\* call records its list, closes it and, when that succeeds, has it executed.
\* The one queue runs the lists in the order they are submitted, so a list
\* takes effect on the resources at its submission; the fences are left as
\* they are here.
ListInit ==
    /\ pc = "list"
    /\ inDtor = FALSE
    /\ frames = 0
    /\ useRaytracing = FALSE
    /\ m_nextFenceValue = 1
    /\ completed = 0
    /\ gpuQueue = <<>>
    /\ fenceEvent = [armed |-> 0, set |-> FALSE]
    /\ issued = <<>>
    /\ wait = NoWait
    /\ m_currentBufferIndex = 0
    /\ m_currentFrameIndex = 0
    /\ m_frameFenceValues = [i \in Slots |-> 0]
    /\ lastSubmit = [slot |-> 0, fence |-> 0]
    /\ m_rayTracingSupported \in BOOLEAN
    /\ m_blasResult = FALSE
    /\ m_tlasResult = FALSE
    /\ m_meshSrvs = FALSE
    /\ m_blasBuf = 0
    /\ m_tlasWidth = NoTlasBuffers
    /\ tlasBuild = NoTlasBuild
    /\ instanceDesc = 0
    /\ asCall = NoAsCall
    /\ blasLog = [built |-> {}, released |-> {}]
    /\ m_sbt = IF m_rayTracingSupported
                 THEN ShaderTableFor(NoSbt, {}, BuildShaderBindingTable, 1)
                 ELSE NoSbt
    /\ recorded = NoRecord
    /\ initFailed = FALSE
    /\ hazards = {}
    /\ m_srvHeap = EmptyHeap
    /\ allocLog = <<>>
    /\ commands = <<>>
    /\ gpu = GpuAfterLoad(m_rayTracingSupported)
    /\ m_currentState = "PIXEL_SHADER_RESOURCE"
    /\ faults = {}
    /\ UnitVarsInit

\* buildAccelerationStructures up to the Close: the early returns (no
\* raytracing support, a failed query or reset), else the reset list with
\* what buildBLAS and buildTLAS record
ListBuildAs ==
    /\ pc = "list"
    /\ asCall.n < MaxAsCalls
    /\ recorded' = NoRecord
    /\ \E entryOk \in BOOLEAN :
       IF ~m_rayTracingSupported \/ ~entryOk
         THEN /\ asCall' = [NoAsCall EXCEPT !.n = asCall.n + 1]
              /\ tlasBuild' = NoTlasBuild
              /\ UNCHANGED <<pc, commands, gpu, m_blasBuf, m_blasResult, blasLog,
                             m_tlasWidth, m_tlasResult, instanceDesc, hazards>>
         ELSE \E blasSize \in BlasPrebuildSizes, prebuild \in TlasPrebuildOnDevice,
                 blasCreateOk, scratchOk, resultOk \in BOOLEAN :
                LET b == BuildBLAS(m_blasBuf, blasSize, blasCreateOk, asCall.n + 1)
                    t == IF b.ok
                           THEN BuildTLAS(m_tlasWidth, b.buf, prebuild, scratchOk, resultOk)
                           ELSE TlasNotCalled(m_tlasWidth)
                IN /\ m_blasBuf' = b.buf
                   /\ m_blasResult' = (b.buf # 0)
                   /\ blasLog' = [blasLog EXCEPT
                                    !.built = IF b.ok THEN @ \cup {b.buf} ELSE @]
                   /\ TlasEffect(t, b.buf)
                   /\ tlasBuild' = t.build
                   /\ asCall' = [n |-> asCall.n + 1, blasSize |-> blasSize,
                                 blas |-> b.outcome, ret |-> b.ok /\ t.ok]
                   /\ commands' = AsCommands(b, t)
                   /\ gpu' = AfterRecording(gpu, b, t)
                   /\ pc' = "ls_as"
    /\ UNCHANGED <<inDtor, frames, useRaytracing, queueVars, gpuVars, wait, ringVars,
                   m_rayTracingSupported, m_meshSrvs, m_sbt, initFailed, heapVars,
                   m_currentState, faults, unitVars,
                   released>>

\* Close; with everything succeeded the list is executed and joined, and
\* createMeshBufferSRVs sets the mesh views
ListSubmitAs ==
    /\ pc = "ls_as"
    /\ \E closeOk, srvOk \in BOOLEAN :
         LET success == asCall.ret /\ closeOk
             e == Execute(commands, gpu, {})
         IN /\ gpu' = IF success THEN e.gpu ELSE gpu
            /\ faults' = IF success THEN faults \cup e.faults ELSE faults
            /\ m_meshSrvs' = (m_meshSrvs \/ (success /\ srvOk))
            /\ asCall' = [asCall EXCEPT !.ret = success /\ srvOk]
            /\ recorded' = [NoRecord EXCEPT !.closed = closeOk]
    /\ pc' = "list"
    /\ UNCHANGED <<inDtor, frames, useRaytracing, queueVars, gpuVars, wait, ringVars,
                   m_rayTracingSupported, asVars, m_sbt, initFailed, hazards, heapVars,
                   commands, m_currentState, unitVars,
                   released>>

\* render() up to the list's reset; a failed reset returns with the list
\* as it was
ListRenderBegin ==
    /\ pc = "list"
    /\ frames < MaxFrames
    /\ frames' = frames + 1
    /\ \E ur \in BOOLEAN : useRaytracing' = ur
    /\ \E resetOk \in BOOLEAN :
         IF resetOk
           THEN /\ commands' = <<>>
                /\ pc' = "ls_record"
           ELSE UNCHANGED <<commands, pc>>
    /\ instanceDesc' = IF m_rayTracingSupported /\ m_blasResult
                         THEN m_blasBuf
                         ELSE instanceDesc
    /\ recorded' = NoRecord
    /\ tlasBuild' = NoTlasBuild
    /\ asCall' = [NoAsCall EXCEPT !.n = asCall.n]
    /\ UNCHANGED <<inDtor, queueVars, gpuVars, wait, ringVars, m_rayTracingSupported,
                   m_meshSrvs, m_blasResult, m_tlasResult, m_blasBuf, m_tlasWidth,
                   blasLog, m_sbt, initFailed, hazards, heapVars, gpu, m_currentState,
                   faults, unitVars,
                   released>>

\* render() from the QueryInterface to the barrier back to the present state
ListRecordFrame ==
    /\ pc = "ls_record"
    /\ \E queryOk \in (IF m_rayTracingSupported /\ useRaytracing THEN BOOLEAN ELSE {TRUE}) :
         LET raytrace == RaytraceBranch(queryOk)
             hasList == HasCommandList5(queryOk)
             ready == raytrace /\ ResourcesReady
             nullCall == raytrace /\ ~ready /\ ~hasList
             t == IF ready
                    THEN BuildTLAS(m_tlasWidth, m_blasBuf, TlasPrebuildAgain(m_tlasWidth),
                                   TRUE, TRUE)
                    ELSE TlasNotCalled(m_tlasWidth)
             rc == RenderCommands(BackBuffer(m_currentBufferIndex), raytrace, hasList,
                                  ready, t, m_currentState)
         IN /\ TlasEffect(t, m_blasBuf)
            /\ useRaytracing' = raytrace
            /\ m_currentState' = rc.state
            /\ gpu' = AfterRecording(gpu, BlasNotCalled(m_blasBuf), t)
            /\ recorded' = [NoRecord EXCEPT
                              !.slot = m_currentFrameIndex,
                              !.branch = IF raytrace THEN "raytrace" ELSE "raster",
                              !.ready = ready,
                              !.dispatch = ready /\ t.ok]
            /\ \E nullCallCrashes \in (IF nullCall THEN BOOLEAN ELSE {FALSE}) :
                 IF nullCallCrashes
                   THEN /\ pc' = "crashed"
                        /\ commands' = <<Transition(BackBuffer(m_currentBufferIndex),
                                                    "PRESENT", "RENDER_TARGET")>>
                   ELSE /\ pc' = "ls_frame"
                        /\ commands' = rc.cmds
    /\ UNCHANGED <<inDtor, frames, queueVars, gpuVars, wait, ringVars,
                   m_rayTracingSupported, m_meshSrvs, m_blasResult, m_blasBuf, blasLog,
                   asCall, m_sbt, initFailed, heapVars, faults, unitVars,
                   released>>

\* Close, executeCommandLists, present, moveToNextFrame
ListSubmitFrame ==
    /\ pc = "ls_frame"
    /\ \E closeOk \in BOOLEAN :
         IF ~Submits(closeOk)
           THEN /\ pc' = "list"
                /\ recorded' = [recorded EXCEPT !.closed = closeOk]
                /\ UNCHANGED <<inDtor, gpu, faults, m_currentBufferIndex,
                               m_currentFrameIndex>>
           ELSE LET e == Execute(commands, gpu, {})
                    bb == BackBuffer(m_currentBufferIndex)
                IN /\ gpu' = e.gpu
                   /\ faults' = faults \cup e.faults \cup PresentFaults(e.gpu, bb)
                   /\ \E presentOk \in BOOLEAN :
                        IF ~presentOk
                          THEN /\ pc' = ThrowPc
                               /\ inDtor' = TRUE
                               /\ recorded' = [recorded EXCEPT !.closed = closeOk]
                               /\ UNCHANGED <<m_currentBufferIndex, m_currentFrameIndex>>
                          ELSE \E signalOk \in BOOLEAN, backBufferIndex \in Slots :
                               /\ m_currentBufferIndex' = backBufferIndex
                               /\ recorded' = [recorded EXCEPT !.closed = closeOk,
                                                               !.presented = TRUE,
                                                               !.signalled = signalOk]
                               /\ IF signalOk
                                    THEN /\ m_currentFrameIndex' =
                                              NextFrameIndex(backBufferIndex,
                                                             m_currentFrameIndex)
                                         /\ pc' = "list"
                                         /\ UNCHANGED inDtor
                                    ELSE /\ pc' = ThrowPc
                                         /\ inDtor' = TRUE
                                         /\ UNCHANGED m_currentFrameIndex
    /\ UNCHANGED <<frames, useRaytracing, queueVars, gpuVars, wait, m_frameFenceValues,
                   lastSubmit, m_rayTracingSupported, m_meshSrvs, asVars, asCall, m_sbt,
                   initFailed, hazards, heapVars, commands, m_currentState, unitVars,
                   released>>

ListNext ==
    \/ ListBuildAs
    \/ ListSubmitAs
    \/ ListRenderBegin
    \/ ListRecordFrame
    \/ ListSubmitFrame

ListSpec == ListInit /\ [][ListNext]_vars

\* ------------------------------------------- the ray dispatch on its own
MaxSbtBase == 24        \* largest table base address, in units of the table alignment

\* addresses GetGPUVirtualAddress reports for a buffer: never 0, and aligned
\* at least as the shader table has to be
SbtBases == {D3D12_RAYTRACING_SHADER_TABLE_BYTE_ALIGNMENT * k : k \in 1 .. MaxSbtBase}

Region(start, size, stride) == [start |-> start, size |-> size, stride |-> stride]

NextTableStart_Packed(end, tableAlignment) == end

\* start of the region that follows one ending at end
NextTableStart(end, tableAlignment) == AlignUp(end, tableAlignment)

\* Renderer::renderRaytraced: one record a region, each start aligned up from
\* the end of the region before
RendererRayDesc(sbt, sbtBase) ==
    LET tableAlignment == D3D12_RAYTRACING_SHADER_TABLE_BYTE_ALIGNMENT
        missStart == NextTableStart(sbtBase + sbt.m_sbtEntrySize, tableAlignment)
        hitStart == NextTableStart(missStart + sbt.m_sbtEntrySize, tableAlignment)
    IN [dispatched |-> TRUE, sbtBase |-> sbtBase, table |-> sbt,
        rayGen |-> Region(sbtBase, sbt.m_sbtEntrySize, 0),
        miss |-> Region(missStart, sbt.m_sbtEntrySize, sbt.m_sbtEntrySize),
        hitGroup |-> Region(hitStart, sbt.m_sbtEntrySize, sbt.m_sbtEntrySize)]

\* RenderRayTracing::renderVariant: two miss and two hit-group records, the
\* offsets aligned up and added to the base
RayTracingRayDesc(sbt, sbtBase) ==
    LET tableAlignment == D3D12_RAYTRACING_SHADER_TABLE_BYTE_ALIGNMENT
        primaryMissStart == NextTableStart(sbt.m_sbtEntrySize, tableAlignment)
        primaryHitGroupStart ==
            NextTableStart(primaryMissStart + sbt.m_sbtEntrySize * 2, tableAlignment)
    IN [dispatched |-> TRUE, sbtBase |-> sbtBase, table |-> sbt,
        rayGen |-> Region(sbtBase, sbt.m_sbtEntrySize, 0),
        miss |-> Region(sbtBase + primaryMissStart, sbt.m_sbtEntrySize * 2,
                        sbt.m_sbtEntrySize),
        hitGroup |-> Region(sbtBase + primaryHitGroupStart, sbt.m_sbtEntrySize * 2,
                            sbt.m_sbtEntrySize)]

\* the table RenderRayTracing::buildShaderBindingTable lays out
RayTracingShaderBindingTable ==
    ShaderTableLayout(D3D12_SHADER_IDENTIFIER_SIZE_IN_BYTES,
                      D3D12_RAYTRACING_SHADER_RECORD_BYTE_ALIGNMENT,
                      D3D12_RAYTRACING_SHADER_TABLE_BYTE_ALIGNMENT, 1, 2, 2)

RendererClasses == {"Renderer", "RenderRayTracing"}

\* the class whose table sbt is: only RenderRayTracing writes two miss records
TableOwner(sbt) == IF sbt.numMissEntries = 2 THEN "RenderRayTracing" ELSE "Renderer"

DxrInit == UnitInit("dxr")

\* the table build of a renderer of either class
DxrBuildTable ==
    /\ pc = "dxr"
    /\ frames < MaxSbtBuilds
    /\ frames' = frames + 1
    /\ \E class \in RendererClasses :
         LET layout == IF class = "Renderer"
                         THEN BuildShaderBindingTable
                         ELSE RayTracingShaderBindingTable
         IN \E missing \in {{}} \cup {{e} : e \in RequiredExports(layout.numRayGenEntries, layout.numMissEntries, layout.numHitGroupEntries)} :
              m_sbt' = [ShaderTableFor(m_sbt, missing, layout, m_sbt.buffer + 1)
                          EXCEPT !.nullId = missing # {}]
    /\ UNCHANGED <<listVars, pc, inDtor, useRaytracing, queueVars, gpuVars, wait, ringVars,
                   m_rayTracingSupported, m_meshSrvs, asVars, asCall, recorded,
                   initFailed, hazards, heapVars>>

\* the ray dispatch of the class that built the table, from the checks on the
\* entry size and the base to DispatchRays
DxrDispatch ==
    /\ pc = "dxr"
    /\ m_sbt.built
    /\ m_sbt.m_sbtEntrySize # 0
    /\ \E sbtBase \in SbtBases :
         rayDesc' = IF TableOwner(m_sbt) = "Renderer"
                      THEN RendererRayDesc(m_sbt, sbtBase)
                      ELSE RayTracingRayDesc(m_sbt, sbtBase)
    /\ UNCHANGED <<commands, gpu, m_currentState, faults, m_buffer, perFrame, m_commandList, slotViews, pc,
                   inDtor, frames,
                   useRaytracing, queueVars, gpuVars, wait, ringVars,
                   m_rayTracingSupported, m_meshSrvs, asVars, asCall, m_sbt, recorded,
                   initFailed, hazards, heapVars, released>>

DxrNext ==
    \/ DxrBuildTable
    \/ DxrDispatch

DxrSpec == DxrInit /\ [][DxrNext]_vars

\* ------------------------------------------------------ Buffer on its own
MaxBufferCalls == 5     \* create, map and unmap calls made on the one Buffer

HeapTypes == {"DEFAULT", "UPLOAD", "READBACK"}

\* Map on a resource of a default heap fails: the heap is not CPU-accessible
MapOutcomes(heapType) == IF heapType \in {"UPLOAD", "READBACK"} THEN BOOLEAN ELSE {FALSE}

\* the warning map() logs for a heap that is neither upload nor readback
HeapWarning(heapType) ==
    IF heapType # "UPLOAD" /\ heapType # "READBACK" THEN {"notUploadOrReadback"} ELSE {}

ReturnsMapped_Never(b) == FALSE

\* if (!m_resource || m_mappedData) return m_mappedData;
ReturnsMapped(b) == ~b.m_resource \/ b.m_mappedData # 0

\* Buffer::map; mapOk is the HRESULT of ID3D12Resource::Map, which hands out
\* a pointer (here: numbered by the call)
BufferMap(b, mapOk) ==
    IF ReturnsMapped(b)
      THEN [b EXCEPT !.n = @ + 1,
                     !.last = [op |-> "map", ret |-> b.m_mappedData,
                               log |-> HeapWarning(b.m_heapType)]]
      ELSE LET ptr == IF mapOk THEN Len(b.calls) + 1 ELSE 0
           IN [b EXCEPT !.n = @ + 1,
                        !.calls = Append(@, [op |-> "Map", ok |-> mapOk]),
                        !.m_mappedData = ptr,
                        !.last = [op |-> "map", ret |-> ptr,
                                  log |-> HeapWarning(b.m_heapType)
                                            \cup (IF mapOk THEN {} ELSE {"mapFailed"})]]

\* Buffer::unmap
BufferUnmap(b) ==
    IF b.m_resource /\ b.m_mappedData # 0
      THEN [b EXCEPT !.n = @ + 1,
                     !.calls = Append(@, [op |-> "Unmap", ok |-> TRUE]),
                     !.m_mappedData = 0,
                     !.last = [op |-> "unmap", ret |-> 0, log |-> {}]]
      ELSE [b EXCEPT !.n = @ + 1,
                     !.last = [op |-> "unmap", ret |-> 0, log |-> {"notMapped"}]]

\* Buffer::create on the new object: the heap type is kept, the resource is
\* there when CreateCommittedResource succeeded
BufferCreate(b, heapType, createOk) ==
    [b EXCEPT !.n = @ + 1, !.m_heapType = heapType, !.m_resource = createOk,
              !.last = [op |-> "create", ret |-> 0, log |-> {}]]

BufInit == UnitInit("buffer")

BufCreateCall ==
    /\ pc = "buffer"
    /\ m_buffer.n = 0
    /\ \E heapType \in HeapTypes, createOk \in BOOLEAN :
         m_buffer' = BufferCreate(m_buffer, heapType, createOk)
    /\ UNCHANGED <<commands, gpu, m_currentState, faults, rayDesc, perFrame, m_commandList, slotViews, released, pc, inDtor,
                   frames, useRaytracing, queueVars, gpuVars, wait, ringVars, dxrVars,
                   hazards, heapVars>>

BufMapCall ==
    /\ pc = "buffer"
    /\ m_buffer.n \in 1 .. MaxBufferCalls - 1
    /\ \E mapOk \in MapOutcomes(m_buffer.m_heapType) :
         m_buffer' = BufferMap(m_buffer, mapOk)
    /\ UNCHANGED <<commands, gpu, m_currentState, faults, rayDesc, perFrame, m_commandList, slotViews, released, pc, inDtor,
                   frames, useRaytracing, queueVars, gpuVars, wait, ringVars, dxrVars,
                   hazards, heapVars>>

BufUnmapCall ==
    /\ pc = "buffer"
    /\ m_buffer.n \in 1 .. MaxBufferCalls - 1
    /\ m_buffer' = BufferUnmap(m_buffer)
    /\ UNCHANGED <<commands, gpu, m_currentState, faults, rayDesc, perFrame, m_commandList, slotViews, released, pc, inDtor,
                   frames, useRaytracing, queueVars, gpuVars, wait, ringVars, dxrVars,
                   hazards, heapVars>>

BufNext ==
    \/ BufCreateCall
    \/ BufMapCall
    \/ BufUnmapCall

BufSpec == BufInit /\ [][BufNext]_vars

\* ------------------------------------------- per-frame indexing on its own
MaxNumFrames == 4       \* largest numFrames passed to Renderer::init
MaxRenders == 2         \* render() calls on the one renderer

\* one indexed access: container, index used, number of elements it has
Access(container, index, size) == [container |-> container, index |-> index, size |-> size]

\* the index renderRaster uses for the material constant view
MaterialCbvIndex(n) == kBackBufferCount

\* waitForGpu and updateConstantBuffers: the slot fence value, the light and
\* the object constant buffer at m_currentFrameIndex
UpdateAccesses(idx, n) ==
    {Access("m_frameFenceValues", idx, kBackBufferCount),
     Access("m_perFrameLightCBs", idx, n),
     Access("m_perFrameObjectCBs", idx, n)}

\* resetAllocator / resetCommandList return false for frameIndex >= m_numAllocators
ResetAccepts(idx, n) == ~(idx >= n)

\* Renderer::init with numFrames: the allocators, the heap, the light views
\* in allocation order and the material view after them; the slot index is
\* the back buffer the swap chain reports
IdxInit == UnitInit("perframe")

IdxInitCall ==
    /\ pc = "perframe"
    /\ perFrame.m_numFramesInFlight = 0
    /\ \E n \in 1 .. MaxNumFrames, descSize \in DescriptorSizes, start \in HeapStarts,
          backBufferIndex \in Slots :
         LET h0 == HeapCreate(TotalDescriptors(n), TRUE, descSize, start)
             a == AllocMany(h0, <<>>, ConstantBufferViews(n))
         IN /\ m_srvHeap' = a.heap
            /\ allocLog' = a.log
            /\ m_currentBufferIndex' = backBufferIndex
            /\ m_currentFrameIndex' = backBufferIndex
            /\ perFrame' = [perFrame EXCEPT !.m_numFramesInFlight = n]
    /\ UNCHANGED <<commands, gpu, m_currentState, faults, rayDesc, m_buffer, m_commandList, slotViews, released, pc,
                   inDtor, frames, useRaytracing, queueVars, gpuVars, wait,
                   m_frameFenceValues, lastSubmit, dxrVars, hazards>>

\* Renderer::render with raster output; indexing a vector past its end is
\* undefined: the call crashes, or goes on to the allocator reset, which
\* rejects the index
IdxRenderCall ==
    /\ pc = "perframe"
    /\ perFrame.m_numFramesInFlight > 0
    /\ perFrame.renders < MaxRenders
    /\ perFrame.outcome # "crashed"
    /\ LET n == perFrame.m_numFramesInFlight
           idx == m_currentFrameIndex
           upd == UpdateAccesses(idx, n)
       IN IF ResetAccepts(idx, n)
            THEN \E backBufferIndex \in Slots :
                   /\ perFrame' = [perFrame EXCEPT
                        !.renders = @ + 1,
                        !.accesses = @ \cup upd
                                       \cup {Access("m_commandAllocators", idx, n)},
                        !.raster = [bound |-> TRUE, slot |-> idx,
                                    light |-> HandleAt(m_srvHeap.startGPU, idx,
                                                       m_srvHeap.descSize),
                                    material |-> HandleAt(m_srvHeap.startGPU,
                                                          MaterialCbvIndex(n),
                                                          m_srvHeap.descSize)],
                        !.outcome = "submitted"]
                   /\ m_currentBufferIndex' = backBufferIndex
                   /\ m_currentFrameIndex' = backBufferIndex
            ELSE \E crash \in BOOLEAN :
                   /\ perFrame' = [perFrame EXCEPT
                        !.renders = @ + 1,
                        !.accesses = @ \cup upd,
                        !.raster = NoRaster,
                        !.outcome = IF crash THEN "crashed" ELSE "returned"]
                   /\ UNCHANGED <<m_currentBufferIndex, m_currentFrameIndex>>
    /\ UNCHANGED <<commands, gpu, m_currentState, faults, rayDesc, m_buffer, m_commandList, slotViews, released, pc,
                   inDtor, frames, useRaytracing, queueVars, gpuVars, wait,
                   m_frameFenceValues, lastSubmit, dxrVars, hazards, heapVars>>

IdxNext ==
    \/ IdxInitCall
    \/ IdxRenderCall

IdxSpec == IdxInit /\ [][IdxNext]_vars

\* ------------------------------------- command list recording on its own
MaxListCalls == 4       \* render() and buildAccelerationStructures() calls

\* ID3D12CommandAllocator::Reset fails while a list is recording on the
\* allocator; resetOk is its result otherwise
AllocatorResets(list, idx, resetOk) == resetOk /\ ~(list.recording /\ list.allocator = idx)

\* ID3D12GraphicsCommandList::Reset fails on a list that is recording
ListResets(list, resetOk) == resetOk /\ ~list.recording

\* the list as a call leaves it: reset is whether the call reset the list
\* into recording, closed whether it called Close afterwards
ListAfter(list, idx, fn, exit, reset, closed) ==
    [recording |-> IF reset THEN ~closed ELSE list.recording,
     allocator |-> IF reset THEN idx ELSE list.allocator,
     calls |-> list.calls + 1, fn |-> fn, exit |-> exit, wasReset |-> reset]

\* the return paths of Renderer::render from the allocator reset on
RenderExit(list, idx, allocOk, listOk, haveBackBuffer, closeOk) ==
    IF ~AllocatorResets(list, idx, allocOk) THEN ListAfter(list, idx, "render", "allocatorReset", FALSE, FALSE)
    ELSE IF ~ListResets(list, listOk) THEN ListAfter(list, idx, "render", "listReset", FALSE, FALSE)
    ELSE IF ~haveBackBuffer THEN ListAfter(list, idx, "render", "noBackBuffer", TRUE, FALSE)
    ELSE IF ~closeOk THEN ListAfter(list, idx, "render", "closeFailed", TRUE, TRUE)
    ELSE ListAfter(list, idx, "render", "submitted", TRUE, TRUE)

\* the return paths of Renderer::buildAccelerationStructures from the
\* allocator reset on
BuildExit(list, idx, allocOk, listOk, queryOk, buildOk, closeOk) ==
    IF ~AllocatorResets(list, idx, allocOk) THEN ListAfter(list, idx, "build", "allocatorReset", FALSE, FALSE)
    ELSE IF ~ListResets(list, listOk) THEN ListAfter(list, idx, "build", "listReset", FALSE, FALSE)
    ELSE IF ~queryOk THEN ListAfter(list, idx, "build", "noInterface", TRUE, FALSE)
    ELSE IF ~buildOk THEN ListAfter(list, idx, "build", "buildFailed", TRUE, TRUE)
    ELSE IF ~closeOk THEN ListAfter(list, idx, "build", "closeFailed", TRUE, TRUE)
    ELSE ListAfter(list, idx, "build", "submitted", TRUE, TRUE)

ClInit == UnitInit("cmdlist")

\* Renderer::render; moveToNextFrame takes the swap chain's next index
ClRenderCall ==
    /\ pc = "cmdlist"
    /\ m_commandList.calls < MaxListCalls
    /\ \E allocOk \in BOOLEAN, listOk \in BOOLEAN, haveBackBuffer \in BOOLEAN,
          closeOk \in BOOLEAN, backBufferIndex \in Slots :
         /\ m_commandList' = RenderExit(m_commandList, m_currentFrameIndex, allocOk, listOk,
                                        haveBackBuffer, closeOk)
         /\ IF m_commandList'.exit = "submitted"
              THEN /\ m_currentBufferIndex' = backBufferIndex
                   /\ m_currentFrameIndex' = backBufferIndex
              ELSE UNCHANGED <<m_currentBufferIndex, m_currentFrameIndex>>
    /\ UNCHANGED <<commands, gpu, m_currentState, faults, rayDesc, m_buffer, perFrame, slotViews,
                   released, pc, inDtor, frames, useRaytracing, queueVars, gpuVars, wait,
                   m_frameFenceValues, lastSubmit, dxrVars, hazards, heapVars>>

\* Renderer::buildAccelerationStructures on a device with raytracing
ClBuildCall ==
    /\ pc = "cmdlist"
    /\ m_commandList.calls < MaxListCalls
    /\ \E allocOk \in BOOLEAN, listOk \in BOOLEAN, queryOk \in BOOLEAN, buildOk \in BOOLEAN,
          closeOk \in BOOLEAN :
         m_commandList' = BuildExit(m_commandList, m_currentFrameIndex, allocOk, listOk,
                                    queryOk, buildOk, closeOk)
    /\ UNCHANGED <<commands, gpu, m_currentState, faults, rayDesc, m_buffer, perFrame, slotViews,
                   released, pc, inDtor, frames, useRaytracing, queueVars, gpuVars, wait,
                   ringVars, dxrVars, hazards, heapVars>>

ClNext ==
    \/ ClRenderCall
    \/ ClBuildCall

ClSpec == ClInit /\ [][ClNext]_vars

\* ----------------------------------------- descriptor slots and their views
\* one allocateDescriptor call site: what the slot is for, whether a view is
\* created at the handle it returned, and whether the handle is kept in a
\* member of the caller
Site(use, view, retained) == [use |-> use, view |-> view, retained |-> retained]

\* the light views of createConstantBuffersAndViews: the handle is a local
\* of the loop
RECURSIVE LightCbvSites(_)
LightCbvSites(n) ==
    IF n = 0 THEN <<>> ELSE LightCbvSites(n - 1) \o <<Site("lightCbv", TRUE, FALSE)>>

\* the rest of createConstantBuffersAndViews
ConstantViewSites(n) ==
    LightCbvSites(n) \o <<Site("materialCbv", TRUE, FALSE), Site("dxrCameraCbv", TRUE, TRUE),
                          Site("dxrObjectCbv", TRUE, TRUE), Site("dxrLightCbv", TRUE, TRUE),
                          Site("dxrMaterialCbv", TRUE, TRUE)>>

\* CreateDXRResources: the first allocation's handles are overwritten by the
\* second allocation, and the view is created at the second
DxrOutputSites == <<Site("dxrOutputUav", FALSE, FALSE), Site("dxrOutputUav", TRUE, TRUE)>>

\* Renderer::init
InitSites(n, supported) == ConstantViewSites(n) \o (IF supported THEN DxrOutputSites ELSE <<>>)

\* Texture::loadFromFile
TextureSites == <<Site("textureSrv", TRUE, TRUE)>>

\* createMeshBufferSRVs
MeshSrvSites == <<Site("vertexSrv", TRUE, TRUE), Site("indexSrv", TRUE, TRUE)>>

\* the sites in order on heap h; the resource created before the allocation
\* of site number failAt cannot be created (0: all are), which makes the
\* caller return before that allocation
RECURSIVE CreateViews(_, _, _, _)
CreateViews(h, slots, sites, failAt) ==
    IF sites = <<>> THEN [heap |-> h, slots |-> slots, ok |-> TRUE]
    ELSE IF failAt = 1 THEN [heap |-> h, slots |-> slots, ok |-> FALSE]
    ELSE LET r == AllocateDescriptor(h)
             s == Head(sites)
         IN IF ~r.ok
              THEN [heap |-> r.heap, slots |-> slots, ok |-> FALSE]
              ELSE CreateViews(r.heap,
                               Append(slots, [index |-> r.before, cpu |-> r.cpu, use |-> s.use,
                                              view |-> s.view, retained |-> s.retained]),
                               Tail(sites), IF failAt = 0 THEN 0 ELSE failAt - 1)

VwInit == UnitInit("views")

\* Renderer::init: heap, constant buffer views and, with raytracing, the
\* output texture's view
VwInitCall ==
    /\ pc = "views"
    /\ \E n \in 1 .. MaxNumFrames, supported \in BOOLEAN, descSize \in DescriptorSizes,
          start \in HeapStarts :
         \E failAt \in 0 .. Len(InitSites(n, supported)) :
           LET h0 == HeapCreate(TotalDescriptors(n), TRUE, descSize, start)
               c == CreateViews(h0, <<>>, InitSites(n, supported), failAt)
           IN /\ m_srvHeap' = c.heap
              /\ slotViews' = c.slots
              /\ m_rayTracingSupported' = supported
              /\ pc' = IF c.ok THEN "views_load" ELSE "views_end"
    /\ UNCHANGED <<commands, gpu, m_currentState, faults, rayDesc, m_buffer, perFrame,
                   m_commandList, released, inDtor, frames, useRaytracing, queueVars,
                   gpuVars, wait, ringVars, m_meshSrvs, asVars, asCall, m_sbt, recorded,
                   initFailed, hazards, allocLog>>

\* Application::loadAssets: the texture's view
VwLoadCall ==
    /\ pc = "views_load"
    /\ \E failAt \in 0 .. 1 :
         LET c == CreateViews(m_srvHeap, slotViews, TextureSites, failAt)
         IN /\ m_srvHeap' = c.heap
            /\ slotViews' = c.slots
            /\ pc' = IF c.ok THEN "views_build" ELSE "views_end"
    /\ UNCHANGED <<commands, gpu, m_currentState, faults, rayDesc, m_buffer, perFrame,
                   m_commandList, released, inDtor, frames, useRaytracing, queueVars,
                   gpuVars, wait, ringVars, dxrVars, hazards, allocLog>>

\* buildAccelerationStructures: the mesh buffer views, after a build that
\* succeeded on a device with raytracing
VwBuildCall ==
    /\ pc = "views_build"
    /\ \E buildOk \in BOOLEAN :
         LET c == IF m_rayTracingSupported /\ buildOk
                    THEN CreateViews(m_srvHeap, slotViews, MeshSrvSites, 0)
                    ELSE [heap |-> m_srvHeap, slots |-> slotViews, ok |-> FALSE]
         IN /\ m_srvHeap' = c.heap
            /\ slotViews' = c.slots
            /\ m_meshSrvs' = c.ok
            /\ pc' = "views_end"
    /\ UNCHANGED <<commands, gpu, m_currentState, faults, rayDesc, m_buffer, perFrame,
                   m_commandList, released, inDtor, frames, useRaytracing, queueVars,
                   gpuVars, wait, ringVars, m_rayTracingSupported, asVars, asCall, m_sbt,
                   recorded, initFailed, hazards, allocLog>>

VwNext ==
    \/ VwInitCall
    \/ VwLoadCall
    \/ VwBuildCall

VwSpec == VwInit /\ [][VwNext]_vars

\* ------------------------------------------------------------------ claims
CurrentSlotFence == m_frameFenceValues[m_currentFrameIndex]

\* C1: the CPU never writes a GPU-read buffer (per-slot object and light
\* constant buffers, the single raytracing camera, object and light constant
\* buffers, the single instance-descriptor buffer) while a submitted frame
\* that reads it has not completed on the GPU.
C1_NoWriteWhileGpuReads == hazards = {}

\* C2: in render() on a slot whose stored fence value F is non-zero,
\* waitForFence(F) has returned, with the completed value >= F, before the
\* slot's constant buffers are written and before its allocator is reset and
\* recorded against.
C2_SlotWaitedBeforeReuse ==
    pc \in {"r_update", "r_record"} /\ CurrentSlotFence # 0
      => /\ wait.returned
         /\ wait.val = CurrentSlotFence
         /\ completed >= CurrentSlotFence

C2_Witness ==
    /\ pc = "r_record"
    /\ CurrentSlotFence # 0
    /\ wait.armed

\* C3: waitForFence is only ever called with a non-zero value; when the
\* current slot's stored fence value is 0, waitForGpu issues no wait.
C3_NoWaitOnZero ==
    /\ wait.ret # "none" => wait.val # 0
    /\ pc \in {"r_update", "r_record", "bas_record"} /\ CurrentSlotFence = 0
         => wait = NoWait

C3_Witness ==
    /\ pc = "r_update"
    /\ CurrentSlotFence = 0
    /\ frames >= 2
    /\ wait = NoWait

\* C4: the values signal() takes are strictly increasing from 1, so none is
\* issued twice, also after a signal() call that failed and threw.
C4_FenceValuesNeverReused ==
    /\ Len(issued) > 0 => issued[1].value = 1
    /\ \A i, j \in 1 .. Len(issued) : i < j => issued[i].value < issued[j].value

C4_Witness ==
    \E i, j \in 1 .. Len(issued) : i < j /\ ~issued[i].ok /\ issued[j].ok

\* C5: waitForFence(v) returns only when the completed value is >= v; it arms
\* the event and blocks only if the value was not reached when it looked, and
\* returns at once without arming when it was.
C5_WaitForFence ==
    /\ wait.returned => completed >= wait.val
    /\ wait.armed => wait.atCall < wait.val
    /\ pc \in {"wf_arm", "wf_block"} => wait.atCall < wait.val
    /\ pc = "wf_block" => wait.armed
    /\ wait.returned /\ ~wait.armed => wait.atCall >= wait.val

C5_Witness ==
    /\ wait.returned
    /\ wait.armed
    /\ wait.val > 1

\* C6: when join() returns, it has waited on the value it just signalled,
\* every submission made before the call has completed, and the completed
\* value is >= every fence value issued so far.
JoinReturnPcs == {"build_as", "bas_srvs", "sd_renderer", "sd_release"}

C6_JoinIsFullBarrier ==
    pc \in JoinReturnPcs
      => /\ wait.returned
         /\ wait.val = issued[Len(issued)].value
         /\ gpuQueue = <<>>
         /\ \A k \in 1 .. Len(issued) : completed >= issued[k].value

C6_Witness ==
    /\ pc = "sd_renderer"
    /\ frames >= 2
    /\ wait.armed

\* C7: after a successful submission the value signal() returned is stored in
\* the slot just recorded and the current slot index becomes the index the
\* swap chain reports after present(); whatever rotation the swap chain
\* chooses, the renderer's slot index equals the swap chain's back-buffer
\* index whenever render() starts or is in progress.
RenderPcs == {"run", "r_update", "r_record"}

C7_SlotFollowsSwapChain ==
    /\ [](pc \in RenderPcs \/ (pc \in WaitPcs /\ wait.ret = "r_update")
            => m_currentFrameIndex = m_currentBufferIndex)
    /\ [][pc = "r_record" /\ pc' = "run" /\ Len(issued') > Len(issued)
            => /\ m_frameFenceValues'[m_currentFrameIndex] = issued'[Len(issued')].value
               /\ m_currentFrameIndex' = m_currentBufferIndex'
               /\ \A i \in Slots \ {m_currentFrameIndex} :
                    m_frameFenceValues'[i] = m_frameFenceValues[i]]_vars

C7_Witness ==
    /\ pc = "r_update"
    /\ lastSubmit.fence # 0
    /\ m_currentFrameIndex # (lastSubmit.slot + 1) % kBackBufferCount
    /\ m_frameFenceValues[lastSubmit.slot] = lastSubmit.fence

\* C8: on a heap created with capacity C the first C allocateDescriptor calls
\* succeed and the (C+1)-th and every later one fail, so successes never
\* exceed C.
CallsOnCreatedHeap == SelectSeq(allocLog, LAMBDA e : e.created)

C8_AllocationsWithinCapacity ==
    m_srvHeap.created
      => /\ \A k \in 1 .. Len(CallsOnCreatedHeap) :
              CallsOnCreatedHeap[k].ok <=> k <= m_srvHeap.cap
         /\ Len(SelectSeq(allocLog, LAMBDA e : e.ok)) <= m_srvHeap.cap

C8_Witness ==
    /\ m_srvHeap.created
    /\ m_srvHeap.cap >= 2
    /\ Len(CallsOnCreatedHeap) >= m_srvHeap.cap + 2

\* C9: the bump index never decreases and nothing is reclaimed: the k-th
\* successful allocation (k from 0) returns heap start + k * descriptorSize,
\* no two successes return the same slot, and a failed allocation returns
\* null handles and leaves the index unchanged.
Successes == SelectSeq(allocLog, LAMBDA e : e.ok)

C9_BumpAllocation ==
    /\ \A k \in 1 .. Len(Successes) :
         /\ Successes[k].cpu = m_srvHeap.startCPU + (k - 1) * m_srvHeap.descSize
         /\ Successes[k].gpu = IF m_srvHeap.shaderVisible
                                 THEN m_srvHeap.startGPU + (k - 1) * m_srvHeap.descSize
                                 ELSE 0
    /\ \A i, j \in 1 .. Len(Successes) : i # j => Successes[i].cpu # Successes[j].cpu
    /\ \A k \in 1 .. Len(allocLog) :
         /\ allocLog[k].after >= allocLog[k].before
         /\ ~allocLog[k].ok => /\ allocLog[k].cpu = 0
                               /\ allocLog[k].gpu = 0
                               /\ allocLog[k].after = allocLog[k].before
         /\ k > 1 /\ allocLog[k - 1].created => allocLog[k].before = allocLog[k - 1].after
    /\ m_srvHeap.idx = Len(Successes)

C9_Witness ==
    /\ Len(Successes) >= 2
    /\ Len(allocLog) > Len(Successes)
    /\ ~allocLog[Len(allocLog)].ok
    /\ allocLog[Len(allocLog)].created

\* C10: the shader-visible heap sized at initialization is large enough for
\* every allocation of renderer initialization, the texture load and one
\* buildAccelerationStructures call, with and without raytracing support.
C10_HeapLargeEnough ==
    /\ \A k \in 1 .. Len(allocLog) : allocLog[k].ok
    /\ m_srvHeap.idx <= m_srvHeap.cap

C10_Witness ==
    /\ pc = "run"
    /\ m_rayTracingSupported
    /\ m_meshSrvs

\* C11: when the device reports no raytracing support, initialization skips
\* the raytracing setup (no output view, no shader binding table) and every
\* render() call, whichever value of the raytracing toggle it is given, records
\* only the raster branch and never enters the raytrace branch.
C11_RasterOnlyWithoutSupport ==
    ~m_rayTracingSupported
      => /\ ~m_sbt.built
         /\ Len(allocLog) <= ConstantBufferViews(numFrames) + 1
         /\ recorded.branch # "raytrace"
         /\ pc # "crashed"

\* C12: in the raytrace branch, when a resource the dispatch needs is unset,
\* no ray dispatch is recorded, the back buffer is cleared with the diagnostic
\* colour and render() goes on to submit the frame.
C12_UnsetResourceFallsBackToClear ==
    recorded.branch = "raytrace" /\ ~recorded.ready
      => /\ ~recorded.dispatch
         /\ recorded.clear = "diag"
         /\ pc # "crashed"

\* C13: buildTLAS records an incremental update, with the previous result
\* buffer as source and destination, exactly when a previous result buffer
\* exists and is at least as large as the prebuild query requires; otherwise
\* it records a full rebuild into a new buffer, with no source and without the
\* perform-update flag.
C13_UpdateExactlyWhenLargeEnough ==
    tlasBuild.outcome = "built"
      => IF tlasBuild.prevWidth # 0 /\ tlasBuild.prevWidth >= tlasBuild.prebuild
           THEN /\ tlasBuild.performUpdateFlag
                /\ tlasBuild.source = "previous"
                /\ tlasBuild.dest = "previous"
           ELSE /\ ~tlasBuild.performUpdateFlag
                /\ tlasBuild.source = "none"
                /\ tlasBuild.dest = "new"

\* C14: once the bottom-level structure is built, no later render() or
\* buildAccelerationStructures call releases or replaces its result buffer
\* while a submitted frame may still read it, and every instance descriptor
\* written names that one buffer.
C14_BlasImmutableAfterBuild ==
    /\ blasLog.released = {}
    /\ instanceDesc # 0 => blasLog.built = {instanceDesc}

\* C15: when the bottom-level prebuild query reports size zero, buildBLAS
\* fails before creating a buffer or recording a build, and
\* buildAccelerationStructures returns failure having submitted nothing,
\* allocated no mesh-buffer descriptor and left the acceleration-structure
\* buffers it held as they were.
C15_ZeroPrebuildFailsCleanly ==
    [][pc = "bas_record" /\ pc' # pc /\ asCall'.blasSize = 0
         => /\ asCall'.blas = "prebuildZero"
            /\ ~asCall'.ret
            /\ pc' = "run"
            /\ UNCHANGED <<gpuQueue, m_nextFenceValue, issued, m_srvHeap, allocLog,
                           m_meshSrvs, m_blasBuf, m_blasResult, m_tlasWidth,
                           m_tlasResult, tlasBuild, instanceDesc, blasLog>>]_vars

C15_Witness ==
    /\ pc = "run"
    /\ asCall.n = 2
    /\ asCall.blas = "prebuildZero"
    /\ m_blasBuf = 1
    /\ m_tlasResult

\* C16: every failure of an initialization step (renderer resource creation,
\* asset load, a failed acceleration-structure build) makes Application::init
\* return false, so the run loop is never entered and no frame is rendered.
C16_InitFailureStopsStartup ==
    initFailed => pc # "run" /\ frames = 0

\* C17: a failed signal during the slot advance leaves render() and the run
\* loop as an error, with the slot's stored fence value and the current slot
\* index as they were, and once an error has left the run no further frame is
\* rendered.
C17_FailedSignalIsFatal ==
    /\ [][pc = "r_record" /\ Len(issued') > Len(issued) /\ ~issued'[Len(issued')].ok
            => /\ pc' = "shutdown"
               /\ inDtor'
               /\ UNCHANGED <<m_frameFenceValues, m_currentFrameIndex>>]_vars
    /\ [][inDtor => frames' = frames]_vars

C17_Witness ==
    /\ pc = "shutdown"
    /\ recorded.presented
    /\ ~recorded.signalled
    /\ lastSubmit.fence # 0

\* C18: after a failed present render() returns normally to the run loop and
\* the frame submitted before it has a fence value signalled and stored.
C18_FailedPresentIsSwallowed ==
    recorded.branch # "none" /\ recorded.closed /\ ~recorded.presented /\ pc # "crashed"
      => /\ pc = "run"
         /\ recorded.signalled
         /\ m_frameFenceValues[recorded.slot] = lastSubmit.fence

\* C19: after a failed command-list close render() returns normally having
\* submitted, presented and signalled nothing, with the slot index and every
\* stored fence value unchanged, and the next render() call uses the same slot.
C19_FailedCloseIsSwallowed ==
    /\ [][pc = "r_record" /\ pc' \notin {pc, "crashed"} /\ ~recorded'.closed
            => /\ pc' = "run"
               /\ UNCHANGED <<inDtor, gpuQueue, m_nextFenceValue, issued,
                              m_currentBufferIndex, m_currentFrameIndex,
                              m_frameFenceValues, lastSubmit>>]_vars
    /\ [][pc = "run" /\ recorded.branch # "none" /\ ~recorded.closed /\ frames' > frames
            => m_currentFrameIndex' = recorded.slot]_vars

C19_Witness ==
    /\ pc = "run"
    /\ recorded.branch # "none"
    /\ ~recorded.closed
    /\ lastSubmit.fence # 0
    /\ gpuQueue # <<>>

\* size rounded up to the next multiple of alignment
RoundedUp(size, alignment) == ((size + alignment - 1) \div alignment) * alignment

\* the table of the inputs the claim names
ClaimedTable ==
    /\ m_sbt.built
    /\ m_sbt.shaderIdSize = 32 /\ m_sbt.recordAlignment = 32 /\ m_sbt.tableAlignment = 64
    /\ m_sbt.numRayGenEntries = 1 /\ m_sbt.numMissEntries = 2
    /\ m_sbt.numHitGroupEntries = 2

\* C20: for an identifier size of 32, a record alignment of 32 and a table
\* alignment of 64, with one ray-generation, two miss and two hit-group
\* records, the record stride is 32, the miss and hit-group regions start at
\* multiples of 64, the three regions do not overlap, and the table size is
\* the sum of the three region sizes each rounded up to 64.
C20_ShaderTableLayout ==
    ClaimedTable
      => /\ m_sbt.m_sbtEntrySize = RoundedUp(32, 32)
         /\ m_sbt.m_sbtEntrySize = 32
         /\ m_sbt.missTableStart % 64 = 0
         /\ m_sbt.hitGroupTableStart % 64 = 0
         /\ m_sbt.rayGenTableStart + 1 * m_sbt.m_sbtEntrySize <= m_sbt.missTableStart
         /\ m_sbt.missTableStart + 2 * m_sbt.m_sbtEntrySize <= m_sbt.hitGroupTableStart
         /\ m_sbt.hitGroupTableStart + 2 * m_sbt.m_sbtEntrySize <= m_sbt.sbtSize
         /\ m_sbt.sbtSize = RoundedUp(1 * m_sbt.m_sbtEntrySize, 64)
                              + RoundedUp(2 * m_sbt.m_sbtEntrySize, 64)
                              + RoundedUp(2 * m_sbt.m_sbtEntrySize, 64)

C20_Witness ==
    /\ ClaimedTable
    /\ m_sbt.sbtSize = 192

\* C21: when the state object hands back a null identifier for a required
\* export, the table build fails before a table buffer is created or written,
\* initialization fails, and no frame, hence no ray dispatch, is ever recorded.
C21_NullIdentifierIsFatal ==
    m_sbt.nullId
      => /\ ~m_sbt.built
         /\ m_sbt.buffer = 0
         /\ m_sbt.writes = {}
         /\ initFailed
         /\ pc \notin RenderPcs
         /\ frames = 0
         /\ ~recorded.dispatch

C21_Witness ==
    /\ m_sbt.nullId
    /\ m_rayTracingSupported
    /\ pc = "done"

\* the two tables were laid out from the same sizes, alignments and counts
SameInputs(a, b) ==
    /\ a.shaderIdSize = b.shaderIdSize
    /\ a.recordAlignment = b.recordAlignment
    /\ a.tableAlignment = b.tableAlignment
    /\ a.numRayGenEntries = b.numRayGenEntries
    /\ a.numMissEntries = b.numMissEntries
    /\ a.numHitGroupEntries = b.numHitGroupEntries

SecondTlasBuild ==
    /\ pc \in {"bas_record", "r_record"}
    /\ m_tlasWidth.result # 0
    /\ instanceDesc = m_blasBuf
    /\ tlasBuild'.outcome = "built"

C30_InstanceDescriptor ==
    tlasBuild.outcome = "built"
      => /\ tlasBuild.instance.transform = Transform3x4(Transpose(WorldMatrix))
         /\ tlasBuild.instance.blas \in blasLog.built
         /\ \A rayMask \in 1 .. 255 : BitAnd(tlasBuild.instance.mask, rayMask, 8) # 0

\* the order of the calls of a render() call that records branch
FrameOrder(branch) ==
    <<"waitForGpu", "updateConstantBuffers", "resetAllocator", "resetCommandList",
      branch, "Close", "executeCommandLists", "present", "signal", "advance">>

IsPrefix(s, q) == Len(s) <= Len(q) /\ s = SubSeq(q, 1, Len(s))

Position(s, x) == CHOOSE k \in 1 .. Len(s) : s[k] = x

Called(x) == \E k \in 1 .. Len(recorded.steps) : recorded.steps[k] = x

\* C24: a render() call waits on the slot's fence, refreshes the constants,
\* resets allocator and list, records exactly one of the two branches, closes,
\* executes, presents, signals and advances the slot, in this order; it never
\* presents without having executed its list, and advances the slot only
\* after present.
C24_FrameStepsInOrder ==
    /\ \/ IsPrefix(recorded.steps, FrameOrder("renderRaster"))
       \/ IsPrefix(recorded.steps, FrameOrder("renderRaytraced"))
    /\ recorded.branch = "raster" => Called("renderRaster")
    /\ recorded.branch = "raytrace" => Called("renderRaytraced")
    /\ Called("present")
         => /\ Called("executeCommandLists")
            /\ Position(recorded.steps, "executeCommandLists")
                 < Position(recorded.steps, "present")
            /\ recorded.closed
    /\ recorded.presented => Called("present")
    /\ Called("advance")
         => /\ recorded.presented
            /\ Position(recorded.steps, "present") < Position(recorded.steps, "advance")
    /\ recorded.signalled <=> Called("advance")

C24_Witness ==
    /\ recorded.steps = FrameOrder("renderRaytraced")
    /\ recorded.dispatch
    /\ recorded.signalled
    /\ m_frameFenceValues[recorded.slot] = lastSubmit.fence

BackBuffers == {BackBuffer(i) : i \in Slots}

\* what executing the list recorded and not yet closed would do
Pending == IF pc \in {"ls_as", "ls_frame"} THEN Execute(commands, gpu, {}) ELSE [gpu |-> gpu, faults |-> {}]

IsUpdate(c) == c.op = "BuildTLAS" /\ c.before = "previous"

\* C25: a top-level build that updates the previous structure in place is
\* recorded only when a top-level build into the result buffer has been
\* executed; the first build, and the first build after a build whose list
\* was never executed, is a full rebuild.
C25_UpdateOnlyAfterExecutedBuild ==
    \A i \in DOMAIN commands : IsUpdate(commands[i]) => gpu.tlasBuilt

\* C26: every transition of a back buffer and of the raytracing output image
\* names the state the resource is in; the list of a frame leaves the back
\* buffer in the present state, and between frames every back buffer is in
\* the present state and the output image in the copy-source state.
C26_BackBufferAndOutputStates ==
    /\ \A f \in faults \cup Pending.faults : f.res \notin BackBuffers \cup {DxrOutput}
    /\ pc = "ls_frame"
         => Pending.gpu.state[BackBuffer(m_currentBufferIndex)] = "PRESENT"
    /\ pc \in {"ls_frame", "list"} /\ m_rayTracingSupported
         => Pending.gpu.state[DxrOutput] = "COPY_SOURCE"
    /\ pc = "list" => \A bb \in BackBuffers : gpu.state[bb] = "PRESENT"

C26_Witness ==
    /\ pc = "list"
    /\ recorded.dispatch
    /\ recorded.presented
    /\ \E i \in DOMAIN commands : commands[i].op = "CopyResource"

\* C27: every executed command that reads the mesh vertex or index buffer
\* (raster draw, bottom-level build, ray dispatch) finds the buffer in a
\* state that permits the access.
C27_MeshBufferStatePermitsAccess ==
    \A f \in faults : f.kind = "access" => f.res \notin {VertexBuf, IndexBuf}

\* C28: every executed texture transition names the state the texture is in
\* on the GPU, the tracked state equals the GPU state between frames, and no
\* texture transition is recorded when the texture is already in the target
\* state.
C28_TextureStateTracked ==
    /\ \A f \in faults : f.kind = "before" => f.res # Tex
    /\ pc = "list" => m_currentState = gpu.state[Tex]
    /\ \A i \in DOMAIN commands :
         commands[i].op = "Transition" /\ commands[i].res = Tex
           => commands[i].before # commands[i].after

IsBuild(c) == c.op \in {"BuildBLAS", "BuildTLAS"}

\* C29: in every list each acceleration-structure build is directly followed
\* by a UAV barrier on its result, and every later command of the list that
\* reads the result comes after that barrier.
C29_BuildsFencedByUavBarrier ==
    \A i \in DOMAIN commands :
      IsBuild(commands[i])
        => /\ i < Len(commands)
           /\ commands[i + 1] = UavBarrier(commands[i].res)
           /\ \A j \in DOMAIN commands :
                j > i /\ commands[i].res \in AsReads(commands[j])
                  => \E k \in DOMAIN commands :
                       i < k /\ k < j /\ commands[k] = UavBarrier(commands[i].res)

C29_Witness ==
    \E i, j \in DOMAIN commands :
      /\ i < j
      /\ commands[i].op = "BuildTLAS"
      /\ commands[j].op = "DispatchRays"

\* the records a region of the dispatch description spans
RecordsIn(region, count) == {region.start + k * region.stride : k \in 0 .. count - 1}

\* where the build wrote the records of one kind, as addresses
RecordsWritten(kind) ==
    {rayDesc.sbtBase + w.at : w \in {x \in rayDesc.table.writes : x.id[1] = kind}}

\* C31: for a table base that is a multiple of the table alignment, the
\* ray-generation, miss and hit-group start addresses handed to DispatchRays
\* are the base plus the offsets of the build, the region sizes are those of
\* the records written, the strides are the record size, and the regions
\* span exactly the records written.
C31_DispatchMatchesTable ==
    rayDesc.dispatched /\ rayDesc.sbtBase % D3D12_RAYTRACING_SHADER_TABLE_BYTE_ALIGNMENT = 0
      => LET sbt == rayDesc.table
         IN /\ rayDesc.rayGen.start = rayDesc.sbtBase + sbt.rayGenTableStart
            /\ rayDesc.miss.start = rayDesc.sbtBase + sbt.missTableStart
            /\ rayDesc.hitGroup.start = rayDesc.sbtBase + sbt.hitGroupTableStart
            /\ rayDesc.rayGen.size = sbt.numRayGenEntries * sbt.m_sbtEntrySize
            /\ rayDesc.miss.size = sbt.numMissEntries * sbt.m_sbtEntrySize
            /\ rayDesc.hitGroup.size = sbt.numHitGroupEntries * sbt.m_sbtEntrySize
            /\ rayDesc.miss.stride = sbt.m_sbtEntrySize
            /\ rayDesc.hitGroup.stride = sbt.m_sbtEntrySize
            /\ {rayDesc.rayGen.start} = RecordsWritten("RayGen")
            /\ RecordsIn(rayDesc.miss, rayDesc.miss.size \div rayDesc.miss.stride)
                 = RecordsWritten("Miss")
            /\ RecordsIn(rayDesc.hitGroup,
                         rayDesc.hitGroup.size \div rayDesc.hitGroup.stride)
                 = RecordsWritten("HitGroup")

C31_Witness ==
    /\ rayDesc.dispatched
    /\ rayDesc.table.numMissEntries = 2
    /\ rayDesc.sbtBase = 3 * D3D12_RAYTRACING_SHADER_TABLE_BYTE_ALIGNMENT
    /\ rayDesc.hitGroup.start = rayDesc.sbtBase + 128

Waiting == pc \in WaitPcs

\* values signal() has returned, each with a Signal enqueued on the queue
SignalledValues == {issued[k].value : k \in {j \in DOMAIN issued : issued[j].ok}}

\* C32: every value a fence wait is made on was returned by an earlier
\* signal() on the queue, and with a GPU that completes what is enqueued
\* every fence wait comes to an end.
C32_FenceWaitsTerminate ==
    /\ [](Waiting => wait.val \in SignalledValues)
    /\ Waiting ~> ~Waiting

C32_Witness ==
    /\ wait.returned
    /\ wait.armed
    /\ wait.ret = "sd_release"
    /\ pc = "done"
    /\ wait.val \in SignalledValues
    /\ frames = MaxFairFrames

RendererOwned == {"rendererResources", "m_renderer"}

ReleasedBefore(k) == {released[j].obj : j \in 1 .. k - 1}

\* C33: the renderer's resources are released with nothing left on the
\* queue; the device is released after the renderer, the assets, the swap
\* chain and the queue; and once the queue is released (the shutdown() that
\* ~Application makes after the explicit one) no signal or fence wait is
\* made and nothing is released again.
C33_ShutdownOrder ==
    /\ [](\A k \in DOMAIN released :
            /\ released[k].obj \in RendererOwned => ~released[k].busy
            /\ released[k].obj = "m_device"
                 => {"rendererResources", "m_renderer", "m_modelMesh", "m_texture",
                     "m_swapChain", "m_commandQueue"} \subseteq ReleasedBefore(k))
    /\ [][IsReleased(released, "m_commandQueue")
            => UNCHANGED <<wait, m_nextFenceValue, issued, gpuQueue, completed, released>>]_vars

C33_Witness ==
    /\ pc = "done"
    /\ inDtor
    /\ Len(released) = Len(ReleaseOrder) + 1
    /\ \A k \in DOMAIN released : ~released[k].dtor
    /\ frames > 0

\* C34: the upload buffers of the mesh and the texture are released only when
\* no submission that reads them is still on the queue.
C34_UploadsReleasedAfterJoin ==
    \A k \in DOMAIN released : released[k].obj = "m_uploadBuffers" => ~released[k].busy

C34_Witness ==
    /\ IsReleased(released, "m_uploadBuffers")
    /\ pc = "run"
    /\ wait.ret = "build_as"
    /\ wait.armed
    /\ wait.returned

\* the Map calls that succeeded and the Unmap calls, in order
RECURSIVE Effective(_)
Effective(calls) ==
    IF calls = <<>> THEN <<>>
    ELSE IF Head(calls).ok THEN <<Head(calls).op>> \o Effective(Tail(calls))
    ELSE Effective(Tail(calls))

Alternates(ops) == \A i \in DOMAIN ops : ops[i] = IF i % 2 = 1 THEN "Map" ELSE "Unmap"

\* what a map() or unmap() call has to leave behind
MapUnmapContract ==
    [][m_buffer'.n > m_buffer.n /\ m_buffer.n > 0
         => /\ m_buffer'.last.op = "map" /\ m_buffer.m_mappedData # 0
                 => /\ m_buffer'.last.ret = m_buffer.m_mappedData
                    /\ m_buffer'.calls = m_buffer.calls
                    /\ m_buffer'.m_mappedData = m_buffer.m_mappedData
            /\ m_buffer'.last.op = "unmap" /\ m_buffer.m_mappedData = 0
                 => /\ m_buffer'.last.log = {"notMapped"}
                    /\ m_buffer'.calls = m_buffer.calls
                    /\ m_buffer'.m_mappedData = 0
                    /\ m_buffer'.m_resource = m_buffer.m_resource
                    /\ m_buffer'.m_heapType = m_buffer.m_heapType
            /\ m_buffer'.last.op = "map" /\ m_buffer.m_heapType = "DEFAULT"
                 => /\ "notUploadOrReadback" \in m_buffer'.last.log
                    /\ m_buffer.m_resource /\ m_buffer.m_mappedData = 0
                         => Len(m_buffer'.calls) = Len(m_buffer.calls) + 1]_vars

\* C35 as stated: for any sequence of map and unmap calls on one Buffer the
\* Map and Unmap calls made on the resource strictly alternate, starting with
\* Map.
C35_MapUnmapAlternate ==
    Alternates([i \in DOMAIN m_buffer.calls |-> m_buffer.calls[i].op])

\* C35 amended: the Map calls that succeeded and the Unmap calls strictly
\* alternate, starting with Map (a Map call that failed is followed by the
\* Map call of the next map()); map on a mapped buffer returns the pointer
\* held without calling Map; unmap on a buffer not mapped changes nothing and
\* logs; map on a default-heap buffer logs and still calls Map.
C35_SuccessfulMapUnmapAlternate ==
    /\ [](Alternates(Effective(m_buffer.calls)))
    /\ [](m_buffer.m_mappedData # 0 <=> Len(Effective(m_buffer.calls)) % 2 = 1)
    /\ MapUnmapContract

C35_Witness ==
    /\ Len(m_buffer.calls) = 3
    /\ ~m_buffer.calls[1].ok
    /\ m_buffer.calls[2].ok
    /\ m_buffer.calls[3].op = "Unmap"
    /\ m_buffer.last.log = {"notMapped"}

\* the GPU handle of the view that allocation number k (from 1) created
AllocatedAt(k) == allocLog[k].gpu

\* C36: the heap indices the raster branch computes by hand (the slot index
\* for the slot's light constant view, the swap chain's back-buffer count for
\* the material constant view) are the indices at which those views were
\* allocated, for every numFrames init accepts.
C36_HandIndicesMatchAllocation ==
    perFrame.raster.bound
      => /\ perFrame.raster.light = AllocatedAt(perFrame.raster.slot + 1)
         /\ perFrame.raster.material = AllocatedAt(perFrame.m_numFramesInFlight + 1)

\* C37: for every numFrames passed to init and every back-buffer index the
\* swap chain reports, render() indexes the per-frame constant buffers, the
\* command allocators and the slot fence values inside their bounds.
C37_IndicesInBounds ==
    \A a \in perFrame.accesses : a.index < a.size

\* C38: every return path of render() and of buildAccelerationStructures()
\* taken after the command list was reset into recording closes the list
\* before returning, so the next call's allocator and list reset can succeed.
C38_ResetListIsClosed ==
    m_commandList.wasReset => ~m_commandList.recording

\* C39: every descriptor slot allocated during initialization, asset load
\* and acceleration-structure build has a view created in it and its handle
\* retained by the owner.
C39_EverySlotHasView ==
    \A i \in DOMAIN slotViews : slotViews[i].view /\ slotViews[i].retained

====
